---- MODULE Spec2Model ----
(***************************************************************************)
(* Model of the infill (acquisition) layer of SBArchOpt,                   *)
(* sb_arch_opt/algo/arch_sbo/infill.py: the criterion life cycle           *)
(* (initialize, set_samples, evaluate, reset_infill_log), the default      *)
(* policy get_default_infill and the infill selectors.                     *)
(*                                                                         *)
(* Numbers are fixed-point integers with three decimals (1000 is 1.0);     *)
(* NaN and the two infinities of IEEE arithmetic are sentinel values.      *)
(* A Python Optional is a sequence: <<>> is None, <<v>> holds v.           *)
(* A method that can raise returns [exc, val]: exc is "" on success and    *)
(* the exception's name otherwise.                                         *)
(***************************************************************************)
EXTENDS Integers, Sequences, FiniteSets, TLC

\* ------------------------------------------------------------------------
\* Python values

None == <<>>
Some(v) == <<v>>
IsNone(o) == Len(o) = 0
Get(o) == o[1]

Ok(v) == [exc |-> "", val |-> v]
Raise(e) == [exc |-> e, val |-> <<>>]
Failed(r) == r.exc # ""

\* a local variable: v is computed once and F is the code that follows
Let(v, F(_)) == F(v)

Min2(a, b) == IF a <= b THEN a ELSE b
Max2(a, b) == IF a >= b THEN a ELSE b

\* ------------------------------------------------------------------------
\* Floating point, as fixed point with three decimals

Sc == 10 * 100
PInf == 9 * (10 ^ 8)
NInf == 0 - PInf
NaN == 0 - (10 ^ 9)

IsNaN(a) == a = NaN
IsInf(a) == a = PInf \/ a = NInf
IsNum(a) == ~IsNaN(a) /\ ~IsInf(a)

\* n / d rounded to the nearest integer, d > 0
Rnd(n, d) == (2 * n + d) \div (2 * d)

Sign(a) == IF a > 0 THEN 1 ELSE IF a < 0 THEN 0 - 1 ELSE 0

FNeg(a) == IF IsNaN(a) THEN NaN ELSE 0 - a

FAdd(a, b) ==
    IF IsNaN(a) \/ IsNaN(b) THEN NaN
    ELSE IF IsInf(a) /\ IsInf(b) THEN (IF a = b THEN a ELSE NaN)
    ELSE IF IsInf(a) THEN a
    ELSE IF IsInf(b) THEN b
    ELSE a + b

FSub(a, b) == FAdd(a, FNeg(b))

FMul(a, b) ==
    IF IsNaN(a) \/ IsNaN(b) THEN NaN
    ELSE IF IsInf(a) \/ IsInf(b)
         THEN (IF a = 0 \/ b = 0 THEN NaN
               ELSE IF Sign(a) * Sign(b) > 0 THEN PInf ELSE NInf)
    ELSE Sign(a) * Sign(b) * Rnd((Sign(a) * a) * (Sign(b) * b), Sc)

FDiv(a, b) ==
    IF IsNaN(a) \/ IsNaN(b) THEN NaN
    ELSE IF IsInf(a) THEN (IF IsInf(b) THEN NaN
                           ELSE IF b >= 0 THEN a ELSE FNeg(a))
    ELSE IF IsInf(b) THEN 0
    ELSE IF b = 0 THEN (IF a = 0 THEN NaN ELSE IF a > 0 THEN PInf ELSE NInf)
    ELSE Sign(a) * Sign(b) * Rnd((Sign(a) * a) * Sc, Sign(b) * b)

RECURSIVE ISqrtIter(_, _, _)
ISqrtIter(n, lo, hi) ==
    IF lo >= hi THEN lo
    ELSE LET mid == (lo + hi + 1) \div 2
         IN IF mid * mid <= n THEN ISqrtIter(n, mid, hi)
                              ELSE ISqrtIter(n, lo, mid - 1)

\* np.sqrt: NaN for a negative argument
FSqrt(a) ==
    IF IsNaN(a) THEN NaN
    ELSE IF a = PInf THEN PInf
    ELSE IF a < 0 THEN NaN
    ELSE ISqrtIter(a * Sc, 0, 40 * Sc)

\* comparisons: every comparison with NaN is false
FLt(a, b) == ~IsNaN(a) /\ ~IsNaN(b) /\ a < b
FLe(a, b) == ~IsNaN(a) /\ ~IsNaN(b) /\ a <= b
FGt(a, b) == FLt(b, a)
FGe(a, b) == FLe(b, a)

\* The standard normal distribution on the grid of half units: z is rounded
\* to the nearest half, the table holds Phi and phi there to three decimals.
HalfSteps(z) == Rnd(2 * (Sign(z) * z), Sc)

CdfTable == <<691, 841, 933, 977, 994, 999>>
PdfTable == <<399, 352, 242, 130, 54, 18, 4, 1>>

CdfPos(h) == IF h = 0 THEN Sc \div 2 ELSE IF h <= Len(CdfTable) THEN CdfTable[h] ELSE Sc

\* scipy.stats.norm.cdf, scipy.special.ndtr
Cdf(z) ==
    IF IsNaN(z) THEN NaN
    ELSE IF z = PInf THEN Sc
    ELSE IF z = NInf THEN 0
    ELSE IF z >= 0 THEN CdfPos(HalfSteps(z)) ELSE Sc - CdfPos(HalfSteps(z))

\* scipy.stats.norm.pdf
Pdf(z) ==
    IF IsNaN(z) THEN NaN
    ELSE IF IsInf(z) THEN 0
    ELSE LET h == HalfSteps(z) IN IF h + 1 <= Len(PdfTable) THEN PdfTable[h + 1] ELSE 0

\* ------------------------------------------------------------------------
\* numpy arrays: a matrix is a sequence of rows, a row a sequence of numbers

Rows(m) == Len(m)
Cols(m) == IF Len(m) = 0 THEN 0 ELSE Len(m[1])
Full(k, n, v) == [i \in 1..k |-> [j \in 1..n |-> v]]

\* row[a:b] of Python: 0-based, b exclusive, clamped to the row's length
SliceRow(row, a, b) ==
    LET hi == Min2(b, Len(row))
    IN [j \in 1..Max2(hi - a, 0) |-> row[a + j]]

\* m[:, a:b]
SliceCols(m, a, b) == [i \in 1..Len(m) |-> SliceRow(m[i], a, b)]

\* np.column_stack of a sequence of matrices with the same number of rows
RECURSIVE ColumnStack(_)
ColumnStack(ms) ==
    IF Len(ms) = 1 THEN ms[1]
    ELSE LET rest == ColumnStack(Tail(ms))
         IN [i \in 1..Len(ms[1]) |-> ms[1][i] \o rest[i]]

\* numpy broadcasting of two rows: equal lengths, or one of length 1
CanBroadcast(a, b) == Len(a) = Len(b) \/ Len(a) = 1 \/ Len(b) = 1
BLen(a, b) == Max2(Len(a), Len(b))
BAt(a, j) == IF Len(a) = 1 THEN a[1] ELSE a[j]

RECURSIVE SumSeq(_)
SumSeq(s) == IF Len(s) = 0 THEN 0 ELSE s[1] + SumSeq(Tail(s))

RECURSIVE FProdInt(_)
FProdInt(s) == IF Len(s) = 0 THEN 1 ELSE s[1] * FProdInt(Tail(s))

RECURSIVE FSumSeq(_)
FSumSeq(s) == IF Len(s) = 0 THEN 0 ELSE FAdd(s[1], FSumSeq(Tail(s)))

RECURSIVE FProdSeq(_)
FProdSeq(s) == IF Len(s) = 0 THEN Sc ELSE FMul(s[1], FProdSeq(Tail(s)))

\* ------------------------------------------------------------------------
\* Collaborators outside this file: the problem descriptor, the
\* normalization, the surrogate model, non-dominated sorting

\* pymoo Problem: the shape a criterion reads
ProblemShape(n_var, n_obj, n_constr, n_ieq_constr) ==
    [n_var |-> n_var, n_obj |-> n_obj, n_constr |-> n_constr,
     n_ieq_constr |-> n_ieq_constr]

\* pymoo Normalization.forward: (x - xl) / (xu - xl), element by element
forward(normalization, x) ==
    [i \in 1..Len(x) |->
        [j \in 1..Len(x[i]) |->
            FDiv(FSub(x[i][j], normalization.xl),
                 FSub(normalization.xu, normalization.xl))]]

\* Normalization.forward on a matrix whose column count is not the number of
\* variables the normalization was built for: raises
ShapeMismatch(normalization, x) == Len(x) > 0 /\ Cols(x) # normalization.n_var

\* The surrogate's answers: a fixed function of the model (its id stands for
\* the model and its training state) and the normalized point.
SmMean(id, xn, j) ==
    IF id = 1 THEN FSumSeq(xn) + (Sc \div 2) * (j - 2)
              ELSE Sc - FSumSeq(xn) - (Sc \div 2) * (j - 1)

SmVar(id, xn, j) ==
    IF id = 1 THEN (IF (FSumSeq(xn) + (Sc \div 2) * j) % Sc = 0 THEN 0 ELSE Sc)
              ELSE (IF j % 2 = 1 THEN 4 * Sc ELSE Sc \div 4)

\* SurrogateModel.predict_values: one row of ny means per row of xn
predict_values(surrogate_model, xn) ==
    [i \in 1..Len(xn) |-> [j \in 1..surrogate_model.ny |-> SmMean(surrogate_model.id, xn[i], j)]]

\* SurrogateModel.predict_variances
predict_variances(surrogate_model, xn) ==
    [i \in 1..Len(xn) |-> [j \in 1..surrogate_model.ny |-> SmVar(surrogate_model.id, xn[i], j)]]

\* a dominates b: at least as good in every objective, strictly better in one
Dominates(a, b) ==
    /\ \A j \in 1..Len(a) : a[j] <= b[j]
    /\ \E j \in 1..Len(a) : a[j] < b[j]

\* the ascending sequence of the members of a finite set of integers
RECURSIVE SortedSeq(_)
SortedSeq(S) ==
    IF S = {} THEN <<>>
    ELSE LET m == CHOOSE a \in S : \A b \in S : a <= b
         IN <<m>> \o SortedSeq(S \ {m})

\* NonDominatedSorting().do(f, only_non_dominated_front=True): the indices of
\* the rows no other row dominates
NonDominatedSorting(f) ==
    SortedSeq({i \in 1..Len(f) : \A k \in 1..Len(f) : ~Dominates(f[k], f[i])})

\* ------------------------------------------------------------------------
\* SurrogateInfill and its variants

ConstrainedKinds ==
    {"FunctionEstimateConstrainedInfill", "ExpectedImprovementInfill",
     "MinVariancePFInfill", "ProbabilityOfImprovementInfill",
     "LowerConfidenceBoundInfill", "MinimumPoIInfill", "EnsembleInfill"}

Kinds == {"FunctionEstimateInfill"} \cup ConstrainedKinds

\* isinstance(infill, ConstrainedInfill)
IsConstrainedInfill(self) == self.kind \in ConstrainedKinds

\* ConstraintStrategy.__init__ and its subclasses
MeanConstraintPrediction == [kind |-> "MeanConstraintPrediction", min_pof |-> 0, problem |-> None]
IgnoreConstraints == [kind |-> "IgnoreConstraints", min_pof |-> 0, problem |-> None]
DefaultMinPof == 500
ProbabilityOfFeasibility(min_pof) ==
    [kind |-> "ProbabilityOfFeasibility",
     min_pof |-> IF IsNone(min_pof) THEN DefaultMinPof ELSE Get(min_pof),
     problem |-> None]

\* SurrogateInfill.__init__, with the attributes the subclasses add
SurrogateInfill(kind) ==
    [kind |-> kind, problem |-> None, surrogate_model |-> None, normalization |-> None,
     n_obj |-> 0, n_constr |-> 0, n_f_ic |-> None,
     x_train |-> None, y_train |-> None,
     f_infill_log |-> <<>>, g_infill_log |-> <<>>,
     n_eval_infill |-> 0, time_eval_infill |-> 0,
     constraint_strategy |-> None, infills |-> None,
     euclidean |-> FALSE, f_pareto |-> None, alpha |-> 0, f_min_offset |-> 0]

\* ConstrainedInfill.__init__
ConstrainedInfill(kind, constraint_strategy, min_pof) ==
    [SurrogateInfill(kind) EXCEPT !.constraint_strategy =
        Some(IF ~IsNone(constraint_strategy) THEN Get(constraint_strategy)
             ELSE IF ~IsNone(min_pof) THEN ProbabilityOfFeasibility(min_pof)
             ELSE MeanConstraintPrediction)]

FunctionEstimateInfill == SurrogateInfill("FunctionEstimateInfill")
FunctionEstimateConstrainedInfill(cs) == ConstrainedInfill("FunctionEstimateConstrainedInfill", cs, None)
ExpectedImprovementInfill(cs) == ConstrainedInfill("ExpectedImprovementInfill", cs, None)
MinVariancePFInfill(cs) == ConstrainedInfill("MinVariancePFInfill", cs, None)
ProbabilityOfImprovementInfill(cs) ==
    [ConstrainedInfill("ProbabilityOfImprovementInfill", cs, None) EXCEPT !.f_min_offset = 0]
DefaultAlpha == 2000
LowerConfidenceBoundInfill(cs) ==
    [ConstrainedInfill("LowerConfidenceBoundInfill", cs, None) EXCEPT !.alpha = DefaultAlpha]
\* LowerConfidenceBoundInfill.__init__ with the alpha argument passed or not
LowerConfidenceBoundInfillWith(alpha, cs) ==
    [ConstrainedInfill("LowerConfidenceBoundInfill", cs, None)
        EXCEPT !.alpha = IF IsNone(alpha) THEN DefaultAlpha ELSE Get(alpha)]
MinimumPoIInfill(euclidean, cs) ==
    [ConstrainedInfill("MinimumPoIInfill", cs, None) EXCEPT !.euclidean = euclidean]
EnsembleInfill(infills, cs) ==
    [ConstrainedInfill("EnsembleInfill", cs, None) EXCEPT !.infills = infills]

\* ------------------------------------------------------------------------
\* ConstraintStrategy

\* ConstraintStrategy.initialize
strategy_initialize(cs, problem) == [cs EXCEPT !.problem = Some(problem)]

\* MeanConstraintPrediction / ProbabilityOfFeasibility / IgnoreConstraints
\* .get_n_infill_constraints
strategy_get_n_infill_constraints(cs) ==
    IF cs.kind = "IgnoreConstraints" THEN Ok(0)
    ELSE IF IsNone(cs.problem) THEN Raise("AttributeError")
    ELSE Ok(Get(cs.problem).n_ieq_constr)

\* Faulty variant of _pof: leaves the undefined ratio 0 / 0 as it is
_pof_unpatched(g, g_var) == Cdf(FDiv(FNeg(g), FSqrt(g_var)))

\* ProbabilityOfFeasibility._pof, one entry
_pof(g, g_var) ==
    Let(Cdf(FDiv(FNeg(g), FSqrt(g_var))), LAMBDA pof :
        IF IsNaN(pof) /\ FLe(g, 0) THEN Sc
        ELSE IF IsNaN(pof) /\ FGt(g, 0) THEN 0
        ELSE pof)

\* ConstraintStrategy.evaluate of the three strategies
strategy_evaluate(cs, x, g, g_var) ==
    IF cs.kind = "MeanConstraintPrediction" THEN g
    ELSE IF cs.kind = "IgnoreConstraints" THEN Full(Len(x), 0, 0)
    ELSE [i \in 1..Len(g) |->
            [j \in 1..Len(g[i]) |-> FSub(cs.min_pof, _pof(g[i][j], g_var[i][j]))]]

\* ------------------------------------------------------------------------
\* Prediction adapter

\* SurrogateInfill._split_f_g
_split_f_g(self, y) ==
    IF self.n_constr > 0
    THEN <<SliceCols(y, 0, self.n_obj), SliceCols(y, self.n_obj, self.n_obj + self.n_constr)>>
    ELSE <<SliceCols(y, 0, self.n_obj), Full(Len(y), 0, 0)>>

\* What the surrogate does in one evaluate call
Faults == {"none", "predict_fpe", "predict_error", "variance_fpe", "variance_error"}

\* Faulty variant of predict: catches every exception, not only
\* FloatingPointError
predict_catching_all(self, x, fault) ==
    IF IsNone(self.normalization) \/ IsNone(self.surrogate_model) THEN Raise("AttributeError")
    ELSE IF ShapeMismatch(Get(self.normalization), x) \/ fault = "predict_error"
    THEN Ok(_split_f_g(self, Full(Len(x), Get(self.surrogate_model).ny, NaN)))
    ELSE LET sm == Get(self.surrogate_model)
             y == IF fault = "predict_fpe"
                  THEN Full(Len(x), sm.ny, NaN)
                  ELSE predict_values(sm, forward(Get(self.normalization), x))
         IN Ok(_split_f_g(self, y))

\* SurrogateInfill.predict
predict(self, x, fault) ==
    IF IsNone(self.normalization) \/ IsNone(self.surrogate_model) THEN Raise("AttributeError")
    ELSE IF ShapeMismatch(Get(self.normalization), x) THEN Raise("ValueError")
    ELSE IF fault = "predict_error" THEN Raise("SurrogateError")
    ELSE LET sm == Get(self.surrogate_model)
             y == IF fault = "predict_fpe"
                  THEN Full(Len(x), sm.ny, NaN)
                  ELSE predict_values(sm, forward(Get(self.normalization), x))
         IN Ok(_split_f_g(self, y))

\* the row at which the surrogate raises FloatingPointError in the loop of
\* predict_variance over k rows; 0 when it does not
FailRow(fault, k) ==
    IF fault = "variance_fpe" THEN 1
    ELSE IF fault = "variance_fpe_last" THEN k
    ELSE 0

\* SurrogateInfill.predict_variance, the loop from row i on: y_var is filled
\* row by row until the surrogate raises; queries are the matrices the
\* surrogate was asked about from row i on, in the order of the calls
RECURSIVE FillVariances(_, _, _, _, _)
FillVariances(self, x, i, y_var, fail_row) ==
    IF i > Len(x) THEN [exc |-> "", val |-> y_var, queries |-> <<>>]
    ELSE Let(forward(Get(self.normalization), <<x[i]>>), LAMBDA query :
         IF i = fail_row
         THEN [exc |-> "FloatingPointError", val |-> y_var, queries |-> <<query>>]
         ELSE [FillVariances(self, x, i + 1,
                             [y_var EXCEPT ![i] =
                                 predict_variances(Get(self.surrogate_model), query)[1]],
                             fail_row)
                  EXCEPT !.queries = <<query>> \o @])

\* Faulty variant of predict_variance: after a FloatingPointError it returns
\* y_var as the loop left it
predict_variance_keeping_rows(self, x, fault) ==
    IF IsNone(self.normalization) \/ IsNone(self.surrogate_model) THEN Raise("AttributeError")
    ELSE IF ShapeMismatch(Get(self.normalization), x) THEN Raise("ValueError")
    ELSE IF fault = "variance_error" THEN Raise("SurrogateError")
    ELSE Let(FillVariances(self, x, 1, Full(Len(x), Get(self.surrogate_model).ny, 0),
                           FailRow(fault, Len(x))),
             LAMBDA r : Ok(_split_f_g(self, r.val)))

\* Faulty variant of predict_variance: asks the surrogate once, about the
\* whole batch
predict_variance_batched(self, x, fault) ==
    IF IsNone(self.normalization) \/ IsNone(self.surrogate_model)
    THEN [exc |-> "AttributeError", val |-> <<>>, queries |-> <<>>]
    ELSE IF ShapeMismatch(Get(self.normalization), x)
    THEN [exc |-> "ValueError", val |-> <<>>, queries |-> <<>>]
    ELSE IF fault = "variance_error"
    THEN [exc |-> "SurrogateError", val |-> <<>>, queries |-> <<>>]
    ELSE Let(forward(Get(self.normalization), x), LAMBDA query :
             [exc |-> "",
              val |-> _split_f_g(self, IF FailRow(fault, Len(x)) > 0
                                       THEN Full(Len(x), Get(self.surrogate_model).ny, NaN)
                                       ELSE predict_variances(Get(self.surrogate_model), query)),
              queries |-> <<query>>])

\* SurrogateInfill.predict_variance: one query per row; queries are the
\* matrices the surrogate was asked about, in the order of the calls
predict_variance(self, x, fault) ==
    IF IsNone(self.normalization) \/ IsNone(self.surrogate_model)
    THEN [exc |-> "AttributeError", val |-> <<>>, queries |-> <<>>]
    ELSE IF ShapeMismatch(Get(self.normalization), x)
    THEN [exc |-> "ValueError", val |-> <<>>, queries |-> <<>>]
    ELSE IF fault = "variance_error"
    THEN [exc |-> "SurrogateError", val |-> <<>>, queries |-> <<>>]
    ELSE Let(FillVariances(self, x, 1, Full(Len(x), Get(self.surrogate_model).ny, 0),
                           FailRow(fault, Len(x))),
             LAMBDA r :
             [exc |-> "",
              val |-> _split_f_g(self, IF r.exc = "FloatingPointError"
                                       THEN Full(Len(x), Get(self.surrogate_model).ny, NaN)
                                       ELSE r.val),
              queries |-> r.queries])

\* SurrogateInfill.get_pareto_front
get_pareto_front(f) ==
    Let(NonDominatedSorting(f), LAMBDA i_non_dom :
        [i \in 1..Len(i_non_dom) |-> f[i_non_dom[i]]])

\* ------------------------------------------------------------------------
\* Declared arities

RECURSIVE get_n_infill_objectives(_)
RECURSIVE SumInfillObjectives(_)

\* Faulty variant of SumInfillObjectives: counts the sub-criteria instead of
\* adding their arities
CountInfills(infills) == Ok(Len(infills))

\* sum([infill.get_n_infill_objectives() for infill in infills])
SumInfillObjectives(infills) ==
    IF Len(infills) = 0 THEN Ok(0)
    ELSE Let(get_n_infill_objectives(infills[1]), LAMBDA n :
         IF Failed(n) THEN n
         ELSE Let(SumInfillObjectives(Tail(infills)), LAMBDA rest :
              IF Failed(rest) THEN rest
              ELSE Ok(n.val + rest.val)))

\* Faulty variant of get_n_infill_objectives: answers from the n_obj attribute
\* the constructor sets, so it answers on an unbound criterion too
get_n_infill_objectives_from_attribute(self) ==
    IF self.kind = "MinimumPoIInfill" THEN Ok(1)
    ELSE IF self.kind = "EnsembleInfill"
         THEN (IF IsNone(self.infills) THEN Raise("TypeError")
               ELSE SumInfillObjectives(Get(self.infills)))
    ELSE Ok(self.n_obj)

\* get_n_infill_objectives of every variant
get_n_infill_objectives(self) ==
    IF self.kind = "MinimumPoIInfill" THEN Ok(1)
    ELSE IF self.kind = "EnsembleInfill"
         THEN (IF IsNone(self.infills) THEN Raise("TypeError")
               ELSE SumInfillObjectives(Get(self.infills)))
    ELSE IF IsNone(self.problem) THEN Raise("AttributeError")
    ELSE Ok(Get(self.problem).n_obj)

\* FunctionEstimateInfill / ConstrainedInfill .get_n_infill_constraints
get_n_infill_constraints(self) ==
    IF self.kind = "FunctionEstimateInfill"
    THEN (IF IsNone(self.problem) THEN Raise("AttributeError")
          ELSE Ok(Get(self.problem).n_constr))
    ELSE strategy_get_n_infill_constraints(Get(self.constraint_strategy))

\* ------------------------------------------------------------------------
\* initialize

RECURSIVE initialize(_, _, _, _)
RECURSIVE _initialize(_)

\* EnsembleInfill._initialize: the sub-criteria a bare ensemble gets
DefaultInfills(n_obj) ==
    IF n_obj = 1
    THEN <<FunctionEstimateConstrainedInfill(None), LowerConfidenceBoundInfill(None),
           ExpectedImprovementInfill(None), ProbabilityOfImprovementInfill(None)>>
    ELSE <<FunctionEstimateConstrainedInfill(None), LowerConfidenceBoundInfill(None)>>

\* Faulty variant of InitializeSub: initializes the sub-criterion with the
\* constraint strategy it was constructed with
InitializeSubAsGiven(infill, self) ==
    initialize(infill, Get(self.problem), Get(self.surrogate_model), Get(self.normalization))

\* EnsembleInfill._initialize: one pass of the loop over the sub-criteria
InitializeSub(infill, self) ==
    LET reset == IF IsConstrainedInfill(infill)
                 THEN [infill EXCEPT !.constraint_strategy = Some(IgnoreConstraints)]
                 ELSE infill
    IN initialize(reset, Get(self.problem), Get(self.surrogate_model), Get(self.normalization))

\* SurrogateInfill._initialize, ConstrainedInfill._initialize, EnsembleInfill._initialize
_initialize(self) ==
    IF self.kind = "FunctionEstimateInfill" THEN self
    ELSE LET subs == IF self.kind # "EnsembleInfill" THEN self.infills
                     ELSE LET given == IF IsNone(self.infills)
                                       THEN DefaultInfills(Get(self.problem).n_obj)
                                       ELSE Get(self.infills)
                          IN Some([i \in 1..Len(given) |-> InitializeSub(given[i], self)])
         IN [self EXCEPT !.infills = subs,
                         !.constraint_strategy =
                             Some(strategy_initialize(Get(self.constraint_strategy),
                                                      Get(self.problem)))]

\* SurrogateInfill.initialize
initialize(self, problem, surrogate_model, normalization) ==
    LET bound == [self EXCEPT !.problem = Some(problem),
                              !.n_obj = problem.n_obj,
                              !.n_constr = problem.n_constr,
                              !.surrogate_model = Some(surrogate_model),
                              !.normalization = Some(normalization)]
    IN Let(_initialize(bound), LAMBDA ready :
           [ready EXCEPT !.n_f_ic = Some(get_n_infill_objectives(ready).val)])

\* ------------------------------------------------------------------------
\* set_samples: [exc, val], val the criterion as the call leaves it

RECURSIVE set_samples(_, _, _)
RECURSIVE SetSamplesEach(_, _, _, _)

\* EnsembleInfill.set_samples: the loop over the sub-criteria, from the i-th on
SetSamplesEach(infills, i, x_train, y_train) ==
    IF i > Len(infills) THEN Ok(infills)
    ELSE Let(set_samples(infills[i], x_train, y_train), LAMBDA r :
         IF Failed(r) THEN [exc |-> r.exc, val |-> [infills EXCEPT ![i] = r.val]]
         ELSE SetSamplesEach([infills EXCEPT ![i] = r.val], i + 1, x_train, y_train))

\* Faulty variant of set_samples: MinimumPoIInfill keeps the Pareto front it
\* already holds
set_samples_keeping_front(self, x_train, y_train) ==
    LET base == [self EXCEPT !.x_train = Some(x_train), !.y_train = Some(y_train)]
    IN IF self.kind = "MinimumPoIInfill"
       THEN (IF IsNone(self.problem) THEN [exc |-> "AttributeError", val |-> base]
             ELSE IF ~IsNone(self.f_pareto) THEN Ok(base)
             ELSE Ok([base EXCEPT !.f_pareto =
                        Some(get_pareto_front(SliceCols(y_train, 0, Get(self.problem).n_obj)))]))
       ELSE IF self.kind = "EnsembleInfill"
       THEN (IF IsNone(self.infills) THEN [exc |-> "TypeError", val |-> base]
             ELSE Let(SetSamplesEach(Get(self.infills), 1, x_train, y_train), LAMBDA r :
                      [exc |-> r.exc, val |-> [base EXCEPT !.infills = Some(r.val)]]))
       ELSE Ok(base)

\* SurrogateInfill.set_samples, MinimumPoIInfill.set_samples,
\* EnsembleInfill.set_samples
set_samples(self, x_train, y_train) ==
    LET base == [self EXCEPT !.x_train = Some(x_train), !.y_train = Some(y_train)]
    IN IF self.kind = "MinimumPoIInfill"
       THEN (IF IsNone(self.problem) THEN [exc |-> "AttributeError", val |-> base]
             ELSE Ok([base EXCEPT !.f_pareto =
                        Some(get_pareto_front(SliceCols(y_train, 0, Get(self.problem).n_obj)))]))
       ELSE IF self.kind = "EnsembleInfill"
       THEN (IF IsNone(self.infills) THEN [exc |-> "TypeError", val |-> base]
             ELSE Let(SetSamplesEach(Get(self.infills), 1, x_train, y_train), LAMBDA r :
                      [exc |-> r.exc, val |-> [base EXCEPT !.infills = Some(r.val)]]))
       ELSE Ok(base)

\* Faulty variant of reset_infill_log: forgets the training set as well
reset_infill_log_and_samples(self) ==
    [self EXCEPT !.f_infill_log = <<>>, !.g_infill_log = <<>>,
                 !.n_eval_infill = 0, !.time_eval_infill = 0,
                 !.x_train = None, !.y_train = None]

\* the attributes __getstate__ replaces by None
_exclude == {"surrogate_model"}

\* Faulty variant of __getstate__: works on the attributes of the criterion
\* instead of a copy of them
__getstate___in_place(self) ==
    Let([self EXCEPT !.surrogate_model = None], LAMBDA state :
        [state |-> state, self |-> state])

\* SurrogateInfill.__getstate__: [state, self], state a copy of the attributes
\* with the excluded ones None, self the criterion as the call leaves it
__getstate__(self) ==
    [state |-> [key \in DOMAIN self |-> IF key \in _exclude THEN None ELSE self[key]],
     self |-> self]

\* SurrogateInfill.reset_infill_log
reset_infill_log(self) ==
    [self EXCEPT !.f_infill_log = <<>>, !.g_infill_log = <<>>,
                 !.n_eval_infill = 0, !.time_eval_infill = 0]

\* ------------------------------------------------------------------------
\* The objective transformations evaluate_f

\* np.min of a non-empty vector: NaN if any entry is NaN
NanMin(s) ==
    IF \E i \in 1..Len(s) : IsNaN(s[i]) THEN NaN
    ELSE CHOOSE m \in {s[i] : i \in 1..Len(s)} : \A i \in 1..Len(s) : m <= s[i]

\* np.argmin of a non-empty vector: the first NaN, else the first minimum
ArgMin(s) ==
    LET m == NanMin(s)
    IN CHOOSE i \in 1..Len(s) : s[i] = m /\ \A k \in 1..(i - 1) : s[k] # m

ColMax(m, j) == CHOOSE v \in {m[i][j] : i \in 1..Len(m)} : \A i \in 1..Len(m) : v >= m[i][j]
ColMin(m, j) == CHOOSE v \in {m[i][j] : i \in 1..Len(m)} : \A i \in 1..Len(m) : v <= m[i][j]

\* np.min(f_pareto, axis=0)
IdealPoint(f_pareto) == [j \in 1..Cols(f_pareto) |-> ColMin(f_pareto, j)]

\* np.max(f_pareto, axis=0), then nadir_point[nadir_point == ideal_point] = 1.
NadirPoint(f_pareto) ==
    [j \in 1..Cols(f_pareto) |->
        IF ColMax(f_pareto, j) = ColMin(f_pareto, j) THEN Sc ELSE ColMax(f_pareto, j)]

\* (row - ideal_point) / (nadir_point - ideal_point), broadcast
NormalizeRow(row, nadir_point, ideal_point) ==
    [j \in 1..BLen(row, ideal_point) |->
        FDiv(FSub(BAt(row, j), BAt(ideal_point, j)),
             FSub(BAt(nadir_point, j), BAt(ideal_point, j)))]

\* v / ((nadir - ideal + 1e-30) ** 2): the 1e-30 only counts where nadir = ideal
VarOver(v, d) ==
    IF d # 0 THEN FDiv(v, FMul(d, d))
    ELSE IF IsNaN(v) THEN NaN
    ELSE IF v = 0 THEN 0
    ELSE IF v > 0 THEN PInf ELSE NInf

\* ExpectedImprovementInfill._normalize_f_var (and the copy in
\* ProbabilityOfImprovementInfill): <<f_norm, f_var_norm>>
_normalize_f_var(f, f_var, nadir_point, ideal_point) ==
    << [i \in 1..Len(f) |-> NormalizeRow(f[i], nadir_point, ideal_point)],
       [i \in 1..Len(f_var) |->
           [j \in 1..BLen(f_var[i], ideal_point) |->
               VarOver(BAt(f_var[i], j), FSub(BAt(nadir_point, j), BAt(ideal_point, j)))]] >>

\* np.sum((f_pareto_norm - f_norm_i) ** 2, axis=1), one entry per front point
SquaredDistances(front, point) ==
    [r \in 1..Len(front) |->
        FSumSeq([j \in 1..BLen(front[r], point) |->
                    LET d == FSub(BAt(front[r], j), BAt(point, j)) IN FMul(d, d)])]

\* Faulty variant of _ei: leaves an undefined value as it is
_ei_unpatched(f_min, f, f_var) ==
    Let(FSub(f_min, f), LAMBDA dy :
    Let(FDiv(dy, FSqrt(f_var)), LAMBDA z :
        FAdd(FMul(dy, Cdf(z)), FMul(f_var, Pdf(z)))))

\* Faulty variant of _ei: at a variance of 0 it answers 1 for an improvement
\* above 0 and 0 otherwise
_ei_one_at_zero_variance(f_min, f, f_var) ==
    Let(FSub(f_min, f), LAMBDA dy :
    Let(FDiv(dy, FSqrt(f_var)), LAMBDA z :
    Let(FAdd(FMul(dy, Cdf(z)), FMul(f_var, Pdf(z))), LAMBDA ei :
        IF (IsNaN(ei) \/ f_var = 0) /\ FGt(dy, 0) THEN Sc
        ELSE IF (IsNaN(ei) \/ f_var = 0) /\ FLe(dy, 0) THEN 0
        ELSE ei)))

\* ExpectedImprovementInfill._ei, one entry
_ei(f_min, f, f_var) ==
    Let(FSub(f_min, f), LAMBDA dy :
    Let(FDiv(dy, FSqrt(f_var)), LAMBDA z :
    Let(FAdd(FMul(dy, Cdf(z)), FMul(f_var, Pdf(z))), LAMBDA ei :
        IF IsNaN(ei) /\ FGt(dy, 0) THEN Sc
        ELSE IF IsNaN(ei) /\ FLe(dy, 0) THEN 0
        ELSE ei)))

\* ExpectedImprovementInfill._evaluate_f_ei
_evaluate_f_ei(f, f_var, f_current) ==
    Let(get_pareto_front(f_current), LAMBDA f_pareto :
    IF Len(f_pareto) = 0 \/ Cols(f_pareto) = 0 THEN Raise("ValueError")
    ELSE
    Let(NadirPoint(f_pareto), LAMBDA nadir_point :
    Let(IdealPoint(f_pareto), LAMBDA ideal_point :
    IF ~CanBroadcast(f[1], ideal_point) THEN Raise("ValueError")
    ELSE
    Let([r \in 1..Len(f_pareto) |-> NormalizeRow(f_pareto[r], nadir_point, ideal_point)],
        LAMBDA f_pareto_norm :
    Let(_normalize_f_var(f, f_var, nadir_point, ideal_point), LAMBDA nrm :
        \* nrm[1] is f_norm, nrm[2] is f_var_norm
        Ok([i \in 1..Len(f) |->
              Let(f_pareto_norm[ArgMin(SquaredDistances(f_pareto_norm, nrm[1][i]))],
                  LAMBDA f_par_min :
                  [j \in 1..Len(f[i]) |->
                      Let(_ei(BAt(f_par_min, j), BAt(nrm[1][i], j), BAt(nrm[2][i], j)),
                          LAMBDA ei : FSub(Sc, IF FLt(ei, 0) THEN 0 ELSE ei))])]))))))

\* ProbabilityOfImprovementInfill._poi, one entry
_poi(f_targets, f, f_var) == Cdf(FDiv(FSub(f_targets, f), FSqrt(f_var)))

\* ProbabilityOfImprovementInfill._evaluate_f_poi
_evaluate_f_poi(f, f_var, f_current, f_min_offset) ==
    Let(get_pareto_front(f_current), LAMBDA f_pareto :
    IF Len(f_pareto) = 0 \/ Cols(f_pareto) = 0 THEN Raise("ValueError")
    ELSE
    Let(NadirPoint(f_pareto), LAMBDA nadir_point :
    Let(IdealPoint(f_pareto), LAMBDA ideal_point :
    IF ~CanBroadcast(f[1], ideal_point) THEN Raise("ValueError")
    ELSE
    Let([r \in 1..Len(f_pareto) |-> NormalizeRow(f_pareto[r], nadir_point, ideal_point)],
        LAMBDA f_pareto_norm :
    Let(_normalize_f_var(f, f_var, nadir_point, ideal_point), LAMBDA nrm :
        \* nrm[1] is f_norm, nrm[2] is f_var_norm
        Ok([i \in 1..Len(f) |->
              Let(f_pareto_norm[ArgMin(SquaredDistances(f_pareto_norm, nrm[1][i]))],
                  LAMBDA f_par_closest :
                  [j \in 1..Len(f[i]) |->
                      FSub(Sc, _poi(FSub(BAt(f_par_closest, j), f_min_offset),
                                    BAt(nrm[1][i], j), BAt(nrm[2][i], j)))])]))))))

\* Faulty variant of _get_euclidean_moment: the distance to the front
\* whatever the probability
_get_euclidean_moment_on_either_side(p_dominate, f_pareto, f_predict) ==
    Let(SquaredDistances(f_pareto, f_predict), LAMBDA d2 :
        NanMin([r \in 1..Len(d2) |-> FSqrt(d2[r])]))

\* MinimumPoIInfill._get_euclidean_moment
_get_euclidean_moment(p_dominate, f_pareto, f_predict) ==
    IF FLt(p_dominate, Sc \div 2) THEN 0
    ELSE Let(SquaredDistances(f_pareto, f_predict), LAMBDA d2 :
             NanMin([r \in 1..Len(d2) |-> FSqrt(d2[r])]))

\* MinimumPoIInfill._mpoi
_mpoi(f_pareto, f_predict, var_predict, euclidean) ==
    LET n_f == Cols(f_pareto)
        cdf_not_better(f, f_pred, var_pred) == Cdf(FDiv(FSub(f_pred, f), FSqrt(var_pred)))
        p_is_dom == [r \in 1..Len(f_pareto) |->
                        FProdSeq([i_f \in 1..n_f |->
                            cdf_not_better(f_pareto[r][i_f], f_predict[i_f], var_predict[i_f])])]
        p_dom == [r \in 1..Len(f_pareto) |-> FSub(Sc, p_is_dom[r])]
    IN IF n_f > Len(f_predict) THEN Raise("IndexError")
       ELSE IF Len(f_pareto) = 0 THEN Raise("ValueError")
       ELSE Let(NanMin(p_dom), LAMBDA min_poi :
            IF ~euclidean THEN Ok(min_poi)
            ELSE IF ~FLt(min_poi, Sc \div 2) /\ ~CanBroadcast(f_pareto[1], f_predict)
                 THEN Raise("ValueError")
            ELSE Ok(FMul(min_poi, _get_euclidean_moment(min_poi, f_pareto, f_predict))))

\* MinimumPoIInfill.get_mpoi_f; a value under 1e-6 is below the resolution of
\* three decimals, so "mpoi < 1e-6" reads "mpoi < 0.001"
get_mpoi_f(f_predict, f_var_predict, f_pareto, euclidean) ==
    Let([i \in 1..Len(f_predict) |->
            _mpoi(f_pareto, f_predict[i], f_var_predict[i], euclidean)], LAMBDA mpoi :
    Let({i \in 1..Len(f_predict) : Failed(mpoi[i])}, LAMBDA bad :
        IF bad # {} THEN Raise(mpoi[CHOOSE i \in bad : \A k \in bad : i <= k].exc)
        ELSE Ok([i \in 1..Len(f_predict) |->
                    << FSub(Sc, IF FLt(mpoi[i].val, 1) THEN 0 ELSE mpoi[i].val) >>])))

RECURSIVE evaluate_f(_, _, _)
RECURSIVE EvaluateFEach(_, _, _)

\* Faulty variant of evaluate_f: the lower confidence bound is taken with the
\* variance in place of the standard deviation
evaluate_f_lcb_by_variance(self, f_predict, f_var_predict) ==
    IF self.kind = "LowerConfidenceBoundInfill"
    THEN Ok([i \in 1..Len(f_predict) |->
               [j \in 1..Len(f_predict[i]) |->
                   FSub(f_predict[i][j], FMul(self.alpha, f_var_predict[i][j]))]])
    ELSE Raise("AttributeError")

\* [infill.evaluate_f(f_predict, f_var_predict) for infill in self.infills]
EvaluateFEach(infills, f_predict, f_var_predict) ==
    IF Len(infills) = 0 THEN Ok(<<>>)
    ELSE Let(evaluate_f(infills[1], f_predict, f_var_predict), LAMBDA r :
         IF Failed(r) THEN r
         ELSE Let(EvaluateFEach(Tail(infills), f_predict, f_var_predict), LAMBDA rest :
              IF Failed(rest) THEN rest
              ELSE Ok(<<r.val>> \o rest.val)))

\* evaluate_f of every ConstrainedInfill variant
evaluate_f(self, f_predict, f_var_predict) ==
    CASE self.kind \in {"FunctionEstimateConstrainedInfill", "MinVariancePFInfill"} ->
            Ok(f_predict)
      [] self.kind = "LowerConfidenceBoundInfill" ->
            Ok([i \in 1..Len(f_predict) |->
                  [j \in 1..Len(f_predict[i]) |->
                      FSub(f_predict[i][j], FMul(self.alpha, FSqrt(f_var_predict[i][j])))]])
      [] self.kind = "ExpectedImprovementInfill" ->
            IF IsNone(self.y_train) THEN Raise("TypeError")
            ELSE _evaluate_f_ei(f_predict, f_var_predict,
                                SliceCols(Get(self.y_train), 0, Cols(f_predict)))
      [] self.kind = "ProbabilityOfImprovementInfill" ->
            IF IsNone(self.y_train) THEN Raise("TypeError")
            ELSE _evaluate_f_poi(f_predict, f_var_predict,
                                 SliceCols(Get(self.y_train), 0, Cols(f_predict)),
                                 self.f_min_offset)
      [] self.kind = "MinimumPoIInfill" ->
            IF IsNone(self.f_pareto) THEN Raise("AttributeError")
            ELSE get_mpoi_f(f_predict, f_var_predict, Get(self.f_pareto), self.euclidean)
      [] self.kind = "EnsembleInfill" ->
            IF IsNone(self.infills) THEN Raise("TypeError")
            ELSE Let(EvaluateFEach(Get(self.infills), f_predict, f_var_predict), LAMBDA r :
                     IF Failed(r) THEN r
                     ELSE IF Len(r.val) = 0 THEN Raise("ValueError")
                     ELSE Ok(ColumnStack(r.val)))
      [] OTHER -> Raise("AttributeError")

\* ------------------------------------------------------------------------
\* evaluate

\* SurrogateInfill.needs_variance, ConstrainedInfill.needs_variance
needs_variance(self) == IsConstrainedInfill(self)

\* a call that returns val after the adapter calls in queries
Done(val, queries) == [exc |-> "", val |-> val, queries |-> queries]

\* a call that raises e after the adapter calls in queries
Broken(e, queries) == [exc |-> e, val |-> <<>>, queries |-> queries]

\* Faulty variant of _evaluate: an ensemble lets every sub-criterion query
\* the surrogate for itself
_evaluate_querying_per_infill(self, x, fault) ==
    Let(IF self.kind = "EnsembleInfill" /\ ~IsNone(self.infills)
        THEN Len(Get(self.infills)) ELSE 1, LAMBDA n :
    Let(predict(self, x, fault), LAMBDA p :
        IF Failed(p) THEN Broken(p.exc, <<"predict">>)
        ELSE IF self.kind = "FunctionEstimateInfill"
        THEN Done(<<p.val[1], p.val[2]>>, <<"predict">>)
        ELSE Let(predict_variance(self, x, fault), LAMBDA v :
             Let([i \in 1..(2 * n) |-> IF i % 2 = 1 THEN "predict" ELSE "predict_variance"],
                 LAMBDA queries :
             IF Failed(v) THEN Broken(v.exc, queries)
             ELSE Let(evaluate_f(self, p.val[1], v.val[1]), LAMBDA f_infill :
                  IF Failed(f_infill) THEN Broken(f_infill.exc, queries)
                  ELSE Done(<<f_infill.val,
                              IF self.n_constr > 0
                              THEN strategy_evaluate(Get(self.constraint_strategy), x,
                                                     p.val[2], v.val[2])
                              ELSE p.val[2]>>, queries))))))

\* FunctionEstimateInfill._evaluate, ConstrainedInfill._evaluate:
\* [exc, val, queries], val the pair <<f_infill, g_infill>>, queries the calls
\* of predict and predict_variance the call made, in their order
_evaluate(self, x, fault) ==
    Let(predict(self, x, fault), LAMBDA p :
        IF Failed(p) THEN Broken(p.exc, <<"predict">>)
        ELSE IF self.kind = "FunctionEstimateInfill"
        THEN Done(<<p.val[1], p.val[2]>>, <<"predict">>)
        ELSE Let(predict_variance(self, x, fault), LAMBDA v :
             IF Failed(v) THEN Broken(v.exc, <<"predict", "predict_variance">>)
             ELSE Let(evaluate_f(self, p.val[1], v.val[1]), LAMBDA f_infill :
                  IF Failed(f_infill)
                  THEN Broken(f_infill.exc, <<"predict", "predict_variance">>)
                  ELSE Done(<<f_infill.val,
                              IF self.n_constr > 0
                              THEN strategy_evaluate(Get(self.constraint_strategy), x,
                                                     p.val[2], v.val[2])
                              ELSE p.val[2]>>, <<"predict", "predict_variance">>))))

\* Faulty variant of evaluate: puts the new entry in front of the log and
\* counts the call instead of its rows
evaluate_prepending(self, x, fault, dt) ==
    Let(_evaluate(self, x, fault), LAMBDA r :
        IF Failed(r) THEN [exc |-> r.exc, val |-> None, self |-> self, queries |-> r.queries]
        ELSE [exc |-> "", val |-> Some(r.val), queries |-> r.queries,
              self |-> [self EXCEPT !.time_eval_infill = @ + dt,
                                    !.f_infill_log = <<r.val[1]>> \o @,
                                    !.g_infill_log = <<r.val[2]>> \o @,
                                    !.n_eval_infill = @ + 1]])

\* Faulty variant of evaluate: adds the time of a failed call to
\* time_eval_infill, as a finally clause would
evaluate_timing_failures(self, x, fault, dt) ==
    Let(_evaluate(self, x, fault), LAMBDA r :
        IF Failed(r) THEN [exc |-> r.exc, val |-> None, queries |-> r.queries,
                           self |-> [self EXCEPT !.time_eval_infill = @ + dt]]
        ELSE [exc |-> "", val |-> Some(r.val), queries |-> r.queries,
              self |-> [self EXCEPT !.time_eval_infill = @ + dt,
                                    !.f_infill_log = Append(@, r.val[1]),
                                    !.g_infill_log = Append(@, r.val[2]),
                                    !.n_eval_infill = @ + Len(x)]])

\* SurrogateInfill.evaluate: [exc, val, self, queries], self the criterion as
\* the call leaves it; dt is the wall-clock time the call measures
evaluate(self, x, fault, dt) ==
    Let(_evaluate(self, x, fault), LAMBDA r :
        IF Failed(r) THEN [exc |-> r.exc, val |-> None, self |-> self, queries |-> r.queries]
        ELSE [exc |-> "", val |-> Some(r.val), queries |-> r.queries,
              self |-> [self EXCEPT !.time_eval_infill = @ + dt,
                                    !.f_infill_log = Append(@, r.val[1]),
                                    !.g_infill_log = Append(@, r.val[2]),
                                    !.n_eval_infill = @ + Len(x)]])

\* ------------------------------------------------------------------------
\* The life cycle of one criterion

VARIABLES
    criterion,    \* the criterion object
    ret,          \* the last call: its name, the exception it raised, its result
    constructed,  \* history: the criterion as its constructor left it
    initialized,  \* history: initialize has been called on the criterion
    calls,        \* history: the successful evaluate calls since construction
                  \* or the last reset, each [k, f_infill, g_infill]
    policy,       \* a call of get_default_infill: its arguments and its result
    selection     \* a call of select_infill_solutions: the criterion, its
                  \* arguments and its result

MaxLog == 1

Strategies == {None, Some(ProbabilityOfFeasibility(None)), Some(IgnoreConstraints)}

SoEnsemble == <<ExpectedImprovementInfill(None), LowerConfidenceBoundInfill(None),
                ProbabilityOfImprovementInfill(None)>>
MoEnsemble == <<MinimumPoIInfill(FALSE, None), MinimumPoIInfill(TRUE, None)>>

\* the ensembles a caller constructs: without sub-criteria, with the two lists
\* of the default policy, and with sub-criteria that bring strategies of their own
Ensembles ==
    {EnsembleInfill(None, None),
     EnsembleInfill(None, Some(IgnoreConstraints)),
     EnsembleInfill(Some(SoEnsemble), None),
     EnsembleInfill(Some(SoEnsemble), Some(ProbabilityOfFeasibility(None))),
     EnsembleInfill(Some(MoEnsemble), None),
     EnsembleInfill(Some(<<LowerConfidenceBoundInfill(Some(ProbabilityOfFeasibility(None))),
                           MinimumPoIInfill(FALSE, None)>>),
                    Some(ProbabilityOfFeasibility(None)))}

\* the criteria a caller constructs
Criteria ==
    {FunctionEstimateInfill}
    \cup {FunctionEstimateConstrainedInfill(cs) : cs \in Strategies}
    \cup {ExpectedImprovementInfill(cs) : cs \in Strategies}
    \cup {MinVariancePFInfill(cs) : cs \in Strategies}
    \cup {ProbabilityOfImprovementInfill(cs) : cs \in Strategies}
    \cup {LowerConfidenceBoundInfill(cs) : cs \in Strategies}
    \cup {MinimumPoIInfill(e, cs) : e \in BOOLEAN, cs \in Strategies}
    \cup Ensembles

\* a surrogate trained for a problem answers with n_obj + n_constr columns
SurrogateFor(id, problem) == [id |-> id, ny |-> problem.n_obj + problem.n_constr]
Normalization(problem, xu) == [xl |-> 0, xu |-> xu, n_var |-> problem.n_var]

\* the arguments initialize is called with: an unconstrained single-objective
\* problem, one with an inequality constraint, and a two-objective problem
\* with an inequality and an equality constraint
InitArgs ==
    LET P1 == ProblemShape(1, 1, 0, 0)
        P2 == ProblemShape(1, 1, 1, 1)
        P3 == ProblemShape(1, 2, 2, 1)
    IN {[problem |-> P1, surrogate_model |-> SurrogateFor(1, P1), normalization |-> Normalization(P1, Sc)],
        [problem |-> P2, surrogate_model |-> SurrogateFor(2, P2), normalization |-> Normalization(P2, 2 * Sc)],
        [problem |-> P3, surrogate_model |-> SurrogateFor(1, P3), normalization |-> Normalization(P3, Sc)]}

\* the training sets set_samples is called with
TrainSets ==
    {[x_train |-> << <<0>>, <<Sc>>, <<Sc>> >>,
      y_train |-> << <<0, Sc>>, <<Sc, 0>>, <<Sc, Sc>> >>],
     [x_train |-> << <<0>>, <<Sc>> >>,
      y_train |-> << <<Sc, 2 * Sc, 0 - Sc, 0>>, <<Sc, 3 * Sc, Sc, 0>> >>]}

\* the query batches evaluate is called with
XBatches == { << <<0>> >>, << <<0>>, <<Sc>> >> }

\* the wall-clock time one evaluate call measures
Ticks == {1}

\* get_default_infill and select_infill_solutions have not been called
NoCall == policy = None /\ selection = None

\* no criterion has been constructed
NoCriterion ==
    /\ criterion = None
    /\ constructed = None
    /\ ret = None
    /\ initialized = FALSE
    /\ calls = <<>>

Init ==
    /\ criterion \in Criteria
    /\ constructed = criterion
    /\ ret = [op |-> "__init__", exc |-> "", val |-> None]
    /\ initialized = FALSE
    /\ calls = <<>>
    /\ NoCall

Initialize ==
    \E a \in InitArgs :
        /\ criterion' = initialize(criterion, a.problem, a.surrogate_model, a.normalization)
        /\ ret' = [op |-> "initialize", exc |-> "", val |-> None]
        /\ initialized' = TRUE
        /\ UNCHANGED <<constructed, calls, policy, selection>>

SetSamples ==
    \E t \in TrainSets :
        \E r \in {set_samples(criterion, t.x_train, t.y_train)} :
           /\ criterion' = r.val
           /\ ret' = [op |-> "set_samples", exc |-> r.exc, val |-> None]
           /\ UNCHANGED <<constructed, initialized, calls, policy, selection>>

Evaluate ==
    /\ Len(criterion.f_infill_log) < MaxLog
    /\ \E x \in XBatches, fault \in Faults, dt \in Ticks :
        \E r \in {evaluate(criterion, x, fault, dt)} :
           /\ criterion' = r.self
           /\ ret' = [op |-> "evaluate", exc |-> r.exc, val |-> r.val]
           /\ calls' = IF Failed(r) THEN calls
                       ELSE Append(calls, [k |-> Len(x), f |-> r.val[1][1], g |-> r.val[1][2]])
           /\ UNCHANGED <<constructed, initialized, policy, selection>>

ResetInfillLog ==
    /\ criterion' = reset_infill_log(criterion)
    /\ ret' = [op |-> "reset_infill_log", exc |-> "", val |-> None]
    /\ calls' = <<>>
    /\ UNCHANGED <<constructed, initialized, policy, selection>>

GetNInfillObjectives ==
    \E r \in {get_n_infill_objectives(criterion)} :
       /\ ret' = [op |-> "get_n_infill_objectives", exc |-> r.exc,
                  val |-> IF Failed(r) THEN None ELSE Some(r.val)]
       /\ UNCHANGED <<criterion, constructed, initialized, calls, policy, selection>>

vars == <<criterion, ret, constructed, initialized, calls, policy, selection>>

Next ==
    \/ Initialize
    \/ SetSamples
    \/ Evaluate
    \/ ResetInfillLog
    \/ GetNInfillObjectives

Spec == Init /\ [][Next]_vars

\* ------------------------------------------------------------------------
\* The infill log over several evaluate calls

MaxCalls == 2

\* the criteria whose log is followed: one without and one with a strategy
LogCriteria ==
    {FunctionEstimateInfill,
     LowerConfidenceBoundInfill(Some(ProbabilityOfFeasibility(None)))}

\* what the surrogate does in one of these calls: it answers, or it fails
LogFaults == {"none", "predict_error"}

InitLog ==
    /\ criterion \in LogCriteria
    /\ constructed = criterion
    /\ ret = [op |-> "__init__", exc |-> "", val |-> None]
    /\ initialized = FALSE
    /\ calls = <<>>
    /\ NoCall

EvaluateLog ==
    /\ Len(calls) < MaxCalls
    /\ \E x \in XBatches, fault \in LogFaults, dt \in Ticks :
        \E r \in {evaluate(criterion, x, fault, dt)} :
           /\ criterion' = r.self
           /\ ret' = [op |-> "evaluate", exc |-> r.exc, val |-> r.val]
           /\ calls' = IF Failed(r) THEN calls
                       ELSE Append(calls, [k |-> Len(x), f |-> r.val[1][1], g |-> r.val[1][2]])
           /\ UNCHANGED <<constructed, initialized, policy, selection>>

NextLog ==
    \/ Initialize
    \/ SetSamples
    \/ EvaluateLog
    \/ ResetInfillLog

SpecLog == InitLog /\ [][NextLog]_vars

\* ------------------------------------------------------------------------
\* The prediction adapter called on its own

\* what the surrogate does in one predict or predict_variance call
AdapterFaults == Faults \cup {"variance_fpe_last"}

Predict ==
    \E x \in XBatches, fault \in {"none", "predict_fpe", "predict_error"} :
        \E r \in {predict(criterion, x, fault)} :
           /\ ret' = [op |-> "predict", exc |-> r.exc, val |-> r.val, x |-> x, fault |-> fault]
           /\ UNCHANGED <<criterion, constructed, initialized, calls, policy, selection>>

PredictVariance ==
    \E x \in XBatches, fault \in AdapterFaults \ {"predict_fpe", "predict_error"} :
        \E r \in {predict_variance(criterion, x, fault)} :
           /\ ret' = [op |-> "predict_variance", exc |-> r.exc, val |-> r.val,
                      x |-> x, fault |-> fault]
           /\ UNCHANGED <<criterion, constructed, initialized, calls, policy, selection>>

NextAdapter ==
    \/ Initialize
    \/ Predict
    \/ PredictVariance

SpecAdapter == Init /\ [][NextAdapter]_vars

\* ------------------------------------------------------------------------
\* The adapter calls of evaluate

\* evaluate, with the adapter calls it made and what needs_variance says
EvaluateQuerying ==
    /\ Len(criterion.f_infill_log) < MaxLog
    /\ \E x \in XBatches, fault \in Faults, dt \in Ticks :
        \E r \in {evaluate(criterion, x, fault, dt)} :
           /\ criterion' = r.self
           /\ ret' = [op |-> "evaluate", exc |-> r.exc, val |-> r.val,
                      x |-> x, fault |-> fault,
                      queries |-> r.queries, needs_variance |-> needs_variance(criterion)]
           /\ calls' = IF Failed(r) THEN calls
                       ELSE Append(calls, [k |-> Len(x), f |-> r.val[1][1], g |-> r.val[1][2]])
           /\ UNCHANGED <<constructed, initialized, policy, selection>>

NextQueries ==
    \/ Initialize
    \/ SetSamples
    \/ EvaluateQuerying

SpecQueries == Init /\ [][NextQueries]_vars

\* ------------------------------------------------------------------------
\* The default policy

\* np.all(problem.is_cont_mask)
AllContinuous(is_cont_mask) == \A i \in 1..Len(is_cont_mask) : is_cont_mask[i]

\* Faulty variant of EffectiveParallel: the problem's declaration comes first
DeclaredParallelFirst(problem, n_parallel) ==
    IF ~IsNone(problem.n_batch_evaluate) THEN Get(problem.n_batch_evaluate)
    ELSE IF ~IsNone(n_parallel) THEN Get(n_parallel)
    ELSE 1

\* the n_parallel get_default_infill works with: the argument, else what the
\* problem's get_n_batch_evaluate() declares, else 1
EffectiveParallel(problem, n_parallel) ==
    IF ~IsNone(n_parallel) THEN Get(n_parallel)
    ELSE IF ~IsNone(problem.n_batch_evaluate) THEN Get(problem.n_batch_evaluate)
    ELSE 1

\* Faulty variant of get_default_infill: looks at the variable types before
\* it looks at the parallel capacity
get_default_infill_types_first(problem, n_parallel) ==
    LET n == EffectiveParallel(problem, n_parallel)
    IN IF problem.n_obj = 1 /\ AllContinuous(problem.is_cont_mask)
       THEN <<FunctionEstimateConstrainedInfill(None), 1>>
       ELSE IF n > 1
       THEN <<EnsembleInfill(Some(IF problem.n_obj = 1 THEN SoEnsemble ELSE MoEnsemble), None), n>>
       ELSE IF problem.n_obj > 1 THEN <<EnsembleInfill(Some(MoEnsemble), None), 1>>
       ELSE <<EnsembleInfill(Some(SoEnsemble), None), 1>>

\* get_default_infill: the pair <<infill, n_batch>>
get_default_infill(problem, n_parallel) ==
    LET n == EffectiveParallel(problem, n_parallel)
    IN IF n > 1
       THEN <<EnsembleInfill(Some(IF problem.n_obj = 1 THEN SoEnsemble ELSE MoEnsemble), None), n>>
       ELSE IF problem.n_obj > 1 THEN <<EnsembleInfill(Some(MoEnsemble), None), 1>>
       ELSE IF AllContinuous(problem.is_cont_mask)
       THEN <<FunctionEstimateConstrainedInfill(None), 1>>
       ELSE <<EnsembleInfill(Some(SoEnsemble), None), 1>>

MaxObj == 3
MaxVar == 2
MaxParallel == 3

\* the problems the policy is asked about: the number of objectives, which
\* variables are continuous, the batch capacity get_n_batch_evaluate() declares
PolicyProblems ==
    [n_obj : 1..MaxObj,
     is_cont_mask : UNION {[1..n -> BOOLEAN] : n \in 1..MaxVar},
     n_batch_evaluate : {None} \cup {Some(n) : n \in 1..MaxParallel}]

\* the n_parallel argument: left out, or given
ParallelArgs == {None} \cup {Some(n) : n \in 1..MaxParallel}

InitPolicy ==
    /\ policy \in {Some([problem |-> pr, n_parallel |-> n, out |-> None]) :
                      pr \in PolicyProblems, n \in ParallelArgs}
    /\ selection = None
    /\ NoCriterion

GetDefaultInfill ==
    /\ ~IsNone(policy)
    /\ IsNone(Get(policy).out)
    /\ policy' = Some([Get(policy) EXCEPT !.out =
                          Some(get_default_infill(Get(policy).problem, Get(policy).n_parallel))])
    /\ UNCHANGED <<criterion, ret, constructed, initialized, calls, selection>>

NextPolicy == GetDefaultInfill

SpecPolicy == InitPolicy /\ [][NextPolicy]_vars

\* ------------------------------------------------------------------------
\* Selection of the infill points from the population the infill search
\* returns. An individual is [F, CV]: its acquisition objectives and its
\* constraint violation (feasible when CV <= 0). A selection is the sequence
\* of the selected individuals' positions in the population.

IsFeasible(ind) == ind.CV <= 0

\* the first position among idx where Key is least: np.argmin
ArgMinBy(idx, Key(_)) ==
    CHOOSE i \in 1..Len(idx) :
        /\ \A k \in 1..Len(idx) : Key(idx[i]) <= Key(idx[k])
        /\ \A k \in 1..(i - 1) : Key(idx[k]) > Key(idx[i])

\* pymoo filter_optimum(population, least_infeasible=True): among the feasible
\* individuals the non-dominated ones (the single best one when there is one
\* objective); the least infeasible individual when none is feasible
filter_optimum(population) ==
    Let(SelectSeq([i \in 1..Len(population) |-> i], LAMBDA i : IsFeasible(population[i])),
        LAMBDA feas :
        IF Len(feas) > 0
        THEN IF Len(population[1].F) > 1
             THEN Let(NonDominatedSorting([i \in 1..Len(feas) |-> population[feas[i]].F]),
                      LAMBDA I : [i \in 1..Len(I) |-> feas[I[i]]])
             ELSE << feas[ArgMinBy(feas, LAMBDA i : population[i].F[1])] >>
        ELSE << ArgMinBy([i \in 1..Len(population) |-> i], LAMBDA i : population[i].CV) >>)

\* pymoo calc_crowding_distance(F): per row the sum over the objectives of the
\* distance between its two neighbours in that objective's order, divided by
\* the objective's range; infinite at the ends of an order; 0 for a row that
\* repeats an earlier one; infinite for all when there are at most two rows.
\* The value is in units of 1 / (n_obj * product of the ranges), so that it
\* stays an integer.
calc_crowding_distance(F) ==
    LET n == Len(F)
        n_obj == Len(F[1])
        is_unique == {i \in 1..n : \A k \in 1..(i - 1) : F[k] # F[i]}
        norm(j) == ColMax(F, j) - ColMin(F, j)
        Unit(j) == FProdInt([c \in 1..n_obj |-> IF c = j \/ norm(c) = 0 THEN 1 ELSE norm(c)])
        \* the rows before and after row i in the order of objective j
        Before(i, j) == {k \in is_unique : F[k][j] < F[i][j] \/ (F[k][j] = F[i][j] /\ k < i)}
        After(i, j) == {k \in is_unique : F[k][j] > F[i][j] \/ (F[k][j] = F[i][j] /\ k > i)}
        Last(i, j) == CHOOSE v \in {F[k][j] : k \in Before(i, j)} :
                          \A k \in Before(i, j) : F[k][j] <= v
        NextOf(i, j) == CHOOSE v \in {F[k][j] : k \in After(i, j)} :
                          \A k \in After(i, j) : F[k][j] >= v
        AtEnd(i) == \E j \in 1..n_obj :
                        norm(j) # 0 /\ (Before(i, j) = {} \/ After(i, j) = {})
        Dist(i) == SumSeq([j \in 1..n_obj |->
                              IF norm(j) = 0 THEN 0
                              ELSE (NextOf(i, j) - Last(i, j)) * Unit(j)])
    IN IF n <= 2 THEN [i \in 1..n |-> PInf]
       ELSE [i \in 1..n |->
                IF i \notin is_unique THEN 0
                ELSE IF AtEnd(i) THEN PInf
                ELSE Dist(i)]

\* the positions of idx without the i-th
RemoveAt(idx, i) == [k \in 1..(Len(idx) - 1) |-> IF k < i THEN idx[k] ELSE idx[k + 1]]

\* Faulty variant of MinCrowded: the positions with the largest crowding
\* distance
MinCrowded_most_spread(population, opt_pop) ==
    Let(calc_crowding_distance([i \in 1..Len(opt_pop) |-> population[opt_pop[i]].F]),
        LAMBDA crowding_of_front :
        {i \in 1..Len(opt_pop) :
            \A k \in 1..Len(opt_pop) : crowding_of_front[i] >= crowding_of_front[k]})

\* EnsembleInfill.select_infill_solutions, one pass of the loop: the positions
\* in the front as it stands that i_remove can be, those with the minimum
\* crowding distance
MinCrowded(population, opt_pop) ==
    {i_remove \in 1..Len(opt_pop) :
        \E crowding_of_front \in
              {calc_crowding_distance([i \in 1..Len(opt_pop) |-> population[opt_pop[i]].F])} :
           crowding_of_front[i_remove] = NanMin(crowding_of_front)}

\* EnsembleInfill.select_infill_solutions, the loop that eliminates n crowded
\* points from the front: every front np.random.choice can leave
RECURSIVE EliminateCrowded(_, _, _)
EliminateCrowded(population, opt_pop, n) ==
    IF n = 0 THEN {opt_pop}
    ELSE UNION {EliminateCrowded(population, RemoveAt(opt_pop, i_remove), n - 1) :
                   i_remove \in MinCrowded(population, opt_pop)}

\* EnsembleInfill.select_infill_solutions: every selection it can return
ensemble_select_infill_solutions(self, population, n_infill) ==
    Let(filter_optimum(population), LAMBDA opt_pop :
        IF Len(opt_pop) <= n_infill THEN {opt_pop}
        ELSE IF n_infill <= Get(self.n_f_ic)
        THEN \* np.random.choice(len(opt_pop), n_infill) draws with replacement
             {[i \in 1..n_infill |-> opt_pop[i_select[i]]] :
                 i_select \in [1..n_infill -> 1..Len(opt_pop)]}
        ELSE EliminateCrowded(population, opt_pop, Len(opt_pop) - n_infill))

\* the subsets of S with n members
SubsetsOfSize(S, n) == {T \in SUBSET S : Cardinality(T) = n}

\* the non-dominated fronts of the rows at the positions in pool, best first
RECURSIVE Fronts(_, _)
Fronts(population, pool) ==
    IF pool = {} THEN <<>>
    ELSE Let({i \in pool : \A k \in pool : ~Dominates(population[k].F, population[i].F)},
             LAMBDA front : <<front>> \o Fronts(population, pool \ front))

\* the rank-and-crowding survival of the positions in feas, n of them: front
\* after front while a front fits whole, then of the front that does not fit
\* the most spread-out members, by crowding distance, ties broken at random.
\* Gives every set of survivors that can result.
RECURSIVE SurviveFronts(_, _, _)
SurviveFronts(population, fronts, n) ==
    IF n = 0 \/ Len(fronts) = 0 THEN {{}}
    ELSE IF Cardinality(fronts[1]) <= n
    THEN {fronts[1] \cup rest :
             rest \in SurviveFronts(population, Tail(fronts), n - Cardinality(fronts[1]))}
    ELSE Let(SortedSeq(fronts[1]), LAMBDA front :
         Let(calc_crowding_distance([i \in 1..Len(front) |-> population[front[i]].F]),
             LAMBDA crowding :
             {{front[i] : i \in T} :
                 T \in {T \in SubsetsOfSize(1..Len(front), n) :
                           \A i \in T : \A k \in (1..Len(front)) \ T :
                               crowding[i] >= crowding[k]}}))

\* the positions of a set in the order of their key, ties in position order
RECURSIVE SortedBy(_, _)
SortedBy(S, key) ==
    IF S = {} THEN <<>>
    ELSE Let(CHOOSE i \in S : \A k \in S : key[i] < key[k] \/ (key[i] = key[k] /\ i <= k),
             LAMBDA first : <<first>> \o SortedBy(S \ {first}, key))

\* pymoo RankAndCrowdingSurvival().do(problem, population, n_survive): at most
\* n_survive individuals and never more than the population holds; the
\* feasible ones survive by rank and crowding, the places left go to the
\* infeasible ones in the order of their constraint violation.
\* Gives every selection that can result.
RankAndCrowdingSurvival(population, n_survive) ==
    LET all == 1..Len(population)
        n == Min2(n_survive, Len(population))
        feas == {i \in all : IsFeasible(population[i])}
        infeas == SortedBy(all \ feas, [i \in all |-> population[i].CV])
    IN {SortedSeq(survivors) \o SubSeq(infeas, 1, n - Cardinality(survivors)) :
           survivors \in SurviveFronts(population, Fronts(population, feas),
                                       Min2(Cardinality(feas), n))}

\* Faulty variant of select_infill_solutions: rank-and-crowding survival
\* whatever the number of acquisition objectives
select_infill_solutions_by_survival(self, population, n_infill) ==
    RankAndCrowdingSurvival(population, n_infill)

\* SurrogateInfill.select_infill_solutions: every selection it can return
select_infill_solutions(self, population, n_infill) ==
    IF self.n_f_ic = Some(1) THEN {filter_optimum(population)}
    ELSE RankAndCrowdingSurvival(population, n_infill)

MaxPop == 4
MaxInfill == 3

\* the criteria that select: initialized, with one, two and three acquisition
\* objectives
SelectArgs ==
    LET P1 == ProblemShape(1, 1, 0, 0)
        P3 == ProblemShape(1, 2, 2, 1)
        Bound(c, P) == initialize(c, P, SurrogateFor(1, P), Normalization(P, Sc))
    IN {Bound(LowerConfidenceBoundInfill(None), P1),
        Bound(FunctionEstimateConstrainedInfill(None), P3),
        Bound(EnsembleInfill(Some(MoEnsemble), None), P3),
        Bound(EnsembleInfill(Some(SoEnsemble), None), P1)}

Individual(F, CV) == [F |-> F, CV |-> CV]

\* the individuals a population with n acquisition objectives is made of
Pool(n) ==
    IF n = 1
    THEN {Individual(<<0>>, 0), Individual(<<1>>, 0), Individual(<<0>>, 2), Individual(<<1>>, 1)}
    ELSE IF n = 2
    THEN {Individual(<<0, 6>>, 0), Individual(<<1, 3>>, 0), Individual(<<3, 1>>, 0),
          Individual(<<6, 0>>, 0), Individual(<<4, 4>>, 0), Individual(<<0, 0>>, 1)}
    ELSE {Individual(<<0, 1, 2>>, 0), Individual(<<1, 2, 0>>, 0), Individual(<<2, 0, 1>>, 0),
          Individual(<<2, 2, 2>>, 0), Individual(<<0, 0, 0>>, 1)}

\* the populations of m individuals with n acquisition objectives
Populations(n, m) == [1..m -> Pool(n)]

\* a criterion is asked to select n_infill individuals of a population whose
\* individuals carry as many acquisition objectives as the criterion declares
InitSelect ==
    /\ \E c \in SelectArgs, m \in 1..MaxPop, n \in 1..MaxInfill :
          \E pop \in Populations(Get(c.n_f_ic), m) :
             selection = Some([self |-> c, population |-> pop, n_infill |-> n, out |-> None])
    /\ policy = None
    /\ NoCriterion

Selecting == ~IsNone(selection) /\ IsNone(Get(selection).out)

SelectInfillSolutions ==
    /\ Selecting
    /\ Get(selection).self.kind # "EnsembleInfill"
    /\ \E out \in select_infill_solutions(Get(selection).self, Get(selection).population,
                                          Get(selection).n_infill) :
          selection' = Some([Get(selection) EXCEPT !.out = Some(out)])
    /\ UNCHANGED <<criterion, ret, constructed, initialized, calls, policy>>

EnsembleSelectInfillSolutions ==
    /\ Selecting
    /\ Get(selection).self.kind = "EnsembleInfill"
    /\ \E out \in ensemble_select_infill_solutions(Get(selection).self,
                                                   Get(selection).population,
                                                   Get(selection).n_infill) :
          selection' = Some([Get(selection) EXCEPT !.out = Some(out)])
    /\ UNCHANGED <<criterion, ret, constructed, initialized, calls, policy>>

NextSelect ==
    \/ SelectInfillSolutions
    \/ EnsembleSelectInfillSolutions

SpecSelect == InitSelect /\ [][NextSelect]_vars

\* ------------------------------------------------------------------------
\* The probability-of-feasibility strategy on predicted constraints

MaxMean == 2
MaxPoints == 2

\* the predicted constraint means: the halves from -MaxMean to MaxMean
PofMeans == {h * (Sc \div 2) : h \in (0 - 2 * MaxMean)..(2 * MaxMean)}

\* the predicted constraint variances, 0 among them
PofVariances == {0, Sc \div 4, Sc, 4 * Sc}

\* the min_pof arguments of the constructor
MinPofArgs == {None, Some(Sc \div 4), Some(9 * (Sc \div 10)), Some(Sc)}

\* no criterion, no default policy call and no selection is involved
OnlyRet ==
    /\ criterion = None
    /\ constructed = None
    /\ initialized = FALSE
    /\ calls = <<>>
    /\ NoCall

\* a ProbabilityOfFeasibility strategy is given the predictions of one
\* constraint at up to MaxPoints points
InitPof ==
    /\ \E min_pof \in MinPofArgs, k \in 1..MaxPoints :
          \E g \in [1..k -> PofMeans], g_var \in [1..k -> PofVariances] :
             ret = [op |-> "ProbabilityOfFeasibility.evaluate",
                    self |-> ProbabilityOfFeasibility(min_pof),
                    x |-> [i \in 1..k |-> <<0>>],
                    g |-> [i \in 1..k |-> <<g[i]>>],
                    g_var |-> [i \in 1..k |-> <<g_var[i]>>],
                    out |-> None]
    /\ OnlyRet

PofEvaluate ==
    /\ ret.op = "ProbabilityOfFeasibility.evaluate"
    /\ IsNone(ret.out)
    /\ ret' = [ret EXCEPT !.out = Some(strategy_evaluate(ret.self, ret.x, ret.g, ret.g_var))]
    /\ UNCHANGED <<criterion, constructed, initialized, calls, policy, selection>>

NextPof == PofEvaluate

SpecPof == InitPof /\ [][NextPof]_vars

\* ------------------------------------------------------------------------
\* The expected improvement on predicted objectives

MaxTrain == 2

\* the numbers of objectives
EiObjectives == {1, 2}

\* the objective values of the training points
TrainValues == {0, Sc, 2 * Sc}

\* the predicted objective means and the predicted variances, none negative
EiMeans == {0 - 2 * Sc, 0, Sc \div 2, 3 * Sc}
EiVariances == {0, Sc, 4 * Sc}

\* the expected improvement of one query point is asked for, given the
\* objectives of up to MaxTrain training points
InitEi ==
    /\ \E n \in EiObjectives, m \in 1..MaxTrain :
          \E f_current \in [1..m -> [1..n -> TrainValues]],
             f \in [1..n -> EiMeans], f_var \in [1..n -> EiVariances] :
             ret = [op |-> "_evaluate_f_ei", f |-> <<f>>, f_var |-> <<f_var>>,
                    f_current |-> f_current, out |-> None]
    /\ OnlyRet

EvaluateFEi ==
    /\ ret.op = "_evaluate_f_ei"
    /\ IsNone(ret.out)
    /\ ret' = [ret EXCEPT !.out = Some(_evaluate_f_ei(ret.f, ret.f_var, ret.f_current))]
    /\ UNCHANGED <<criterion, constructed, initialized, calls, policy, selection>>

NextEi == EvaluateFEi

SpecEi == InitEi /\ [][NextEi]_vars

\* ------------------------------------------------------------------------
\* The lower confidence bound on predicted objectives

\* the alpha arguments of the constructor
AlphaArgs == {None, Some(Sc \div 2)}

\* the predicted objective means and variances
LcbMeans == {0 - Sc, Sc}
LcbVariances == {0, 2 * Sc, 4 * Sc}

\* the y_train the criterion holds: none, or the one of three training points
LcbTrainSets == {None, Some(<< <<0, Sc>>, <<Sc, 0>>, <<Sc, Sc>> >>)}

\* a LowerConfidenceBoundInfill, with or without a training set, is given
\* the predictions of one or two objectives at up to MaxPoints points
InitLcb ==
    /\ \E alpha \in AlphaArgs, k \in 1..MaxPoints, n \in {1, 2},
          y_train \in LcbTrainSets :
          \E f \in [1..k -> [1..n -> LcbMeans]], f_var \in [1..k -> [1..n -> LcbVariances]] :
             ret = [op |-> "LowerConfidenceBoundInfill.evaluate_f",
                    self |-> [LowerConfidenceBoundInfillWith(alpha, None)
                                 EXCEPT !.y_train = y_train],
                    alpha |-> alpha,
                    f |-> f, f_var |-> f_var, out |-> None]
    /\ OnlyRet

LcbEvaluateF ==
    /\ ret.op = "LowerConfidenceBoundInfill.evaluate_f"
    /\ IsNone(ret.out)
    /\ ret' = [ret EXCEPT !.out = Some(evaluate_f(ret.self, ret.f, ret.f_var))]
    /\ UNCHANGED <<criterion, constructed, initialized, calls, policy, selection>>

NextLcb == LcbEvaluateF

SpecLcb == InitLcb /\ [][NextLcb]_vars

\* ------------------------------------------------------------------------
\* Repeated evaluate calls on one training set

\* the evaluate calls followed after one set_samples or initialize call
MaxRepeat == 2

\* one criterion of every class
RepeatCriteria ==
    {FunctionEstimateInfill,
     FunctionEstimateConstrainedInfill(None),
     ExpectedImprovementInfill(None),
     MinVariancePFInfill(None),
     ProbabilityOfImprovementInfill(Some(IgnoreConstraints)),
     LowerConfidenceBoundInfill(None),
     MinimumPoIInfill(FALSE, None),
     MinimumPoIInfill(TRUE, None),
     EnsembleInfill(Some(MoEnsemble), None)}

\* what the surrogate does in these calls: it answers every query
RepeatFaults == {"none"}

\* ret.train is the training set of the last set_samples call when no
\* initialize call came after it, ret.twice tells that the call before it was
\* a set_samples call with the same training set; calls holds the evaluate
\* calls made since the last set_samples or initialize call, each
\* [x, fault, exc, val]. A call is followed while the log holds at most one
\* entry more than the calls followed so far.
InitRepeat ==
    /\ criterion \in RepeatCriteria
    /\ constructed = criterion
    /\ ret = [op |-> "__init__", exc |-> "", val |-> None, train |-> None,
              twice |-> FALSE]
    /\ initialized = FALSE
    /\ calls = <<>>
    /\ NoCall

InitializeRepeat ==
    \E a \in InitArgs :
        /\ criterion' = initialize(criterion, a.problem, a.surrogate_model, a.normalization)
        /\ ret' = [op |-> "initialize", exc |-> "", val |-> None, train |-> None,
                   twice |-> FALSE]
        /\ initialized' = TRUE
        /\ calls' = <<>>
        /\ UNCHANGED <<constructed, policy, selection>>

SetSamplesRepeat ==
    \E t \in TrainSets :
        \E r \in {set_samples(criterion, t.x_train, t.y_train)} :
           /\ criterion' = r.val
           /\ ret' = [op |-> "set_samples", exc |-> r.exc, val |-> None,
                      train |-> IF initialized /\ ~Failed(r) THEN Some(t) ELSE None,
                      twice |-> ret.op = "set_samples" /\ ret.train = Some(t)]
           /\ calls' = <<>>
           /\ UNCHANGED <<constructed, initialized, policy, selection>>

EvaluateRepeat ==
    /\ Len(calls) < MaxRepeat
    /\ Len(criterion.f_infill_log) <= Len(calls) + 1
    /\ \E x \in XBatches, fault \in RepeatFaults, dt \in Ticks :
        \E r \in {evaluate(criterion, x, fault, dt)} :
           /\ criterion' = r.self
           /\ ret' = [op |-> "evaluate", exc |-> r.exc, val |-> r.val, train |-> ret.train,
                      twice |-> ret.twice]
           /\ calls' = Append(calls, [x |-> x, fault |-> fault, exc |-> r.exc, val |-> r.val])
           /\ UNCHANGED <<constructed, initialized, policy, selection>>

ResetInfillLogRepeat ==
    /\ criterion' = reset_infill_log(criterion)
    /\ ret' = [op |-> "reset_infill_log", exc |-> "", val |-> None, train |-> ret.train,
               twice |-> ret.twice]
    /\ UNCHANGED <<constructed, initialized, calls, policy, selection>>

NextRepeat ==
    \/ InitializeRepeat
    \/ SetSamplesRepeat
    \/ EvaluateRepeat
    \/ ResetInfillLogRepeat

SpecRepeat == InitRepeat /\ [][NextRepeat]_vars

\* ------------------------------------------------------------------------
\* evaluate on query matrices of several widths

\* the arguments initialize is called with: a one-variable and a two-variable
\* problem
ShapeArgs ==
    {[problem |-> P, surrogate_model |-> SurrogateFor(1, P), normalization |-> Normalization(P, Sc)] :
        P \in {ProblemShape(1, 1, 0, 0), ProblemShape(2, 1, 1, 1)}}

\* query batches of one and two rows with one and two columns
ShapeBatches ==
    { << <<0>> >>, << <<0>>, <<Sc>> >>, << <<0, Sc>> >>, << <<0, Sc>>, <<Sc, 0>> >> }

\* what the surrogate does in these calls: it answers every query
ShapeFaults == {"none"}

\* the criteria called: without variance queries, with a constraint strategy,
\* and an ensemble
ShapeCriteria == LogCriteria \cup {EnsembleInfill(Some(MoEnsemble), None)}

InitShape ==
    /\ criterion \in ShapeCriteria
    /\ constructed = criterion
    /\ ret = [op |-> "__init__", exc |-> "", val |-> None]
    /\ initialized = FALSE
    /\ calls = <<>>
    /\ NoCall

InitializeShape ==
    \E a \in ShapeArgs :
        /\ criterion' = initialize(criterion, a.problem, a.surrogate_model, a.normalization)
        /\ ret' = [op |-> "initialize", exc |-> "", val |-> None]
        /\ initialized' = TRUE
        /\ UNCHANGED <<constructed, calls, policy, selection>>

EvaluateShape ==
    /\ Len(criterion.f_infill_log) <= MaxLog
    /\ \E x \in ShapeBatches, fault \in ShapeFaults, dt \in Ticks :
        \E r \in {evaluate(criterion, x, fault, dt)} :
           /\ criterion' = r.self
           /\ ret' = [op |-> "evaluate", exc |-> r.exc, val |-> r.val, x |-> x]
           /\ calls' = IF Failed(r) THEN calls
                       ELSE Append(calls, [k |-> Len(x), f |-> r.val[1][1], g |-> r.val[1][2]])
           /\ UNCHANGED <<constructed, initialized, policy, selection>>

NextShape ==
    \/ InitializeShape
    \/ SetSamples
    \/ EvaluateShape

SpecShape == InitShape /\ [][NextShape]_vars

\* ------------------------------------------------------------------------
\* The state a criterion hands to serialization

GetState ==
    \E r \in {__getstate__(criterion)} :
       /\ criterion' = r.self
       /\ ret' = [op |-> "__getstate__", exc |-> "", val |-> Some(r.state)]
       /\ UNCHANGED <<constructed, initialized, calls, policy, selection>>

NextState ==
    \/ Initialize
    \/ SetSamples
    \/ EvaluateLog
    \/ ResetInfillLog
    \/ GetState

SpecState == InitShape /\ [][NextState]_vars

\* ------------------------------------------------------------------------
\* The optimization interface of the tests (test_segomoe.py)

MaxInit == 2

\* SEGOMOEInterface(problem, results_folder, n_init, n_infill): x holds the
\* evaluated points, x_failed the points whose evaluation failed, each point
\* named by its place in the order of evaluation
SEGOMOEInterface(n_init, n_infill) ==
    [n_init |-> n_init, n_infill |-> n_infill, x |-> <<>>, x_failed |-> <<>>]

\* interface.n, interface.n_failed, interface.n_tried
InterfaceN(self) == Len(self.x)
InterfaceNFailed(self) == Len(self.x_failed)
InterfaceNTried(self) == InterfaceN(self) + InterfaceNFailed(self)

\* the evaluations one run_optimization call makes: one per point, each
\* ending in x or, when outcomes says that it fails, in x_failed
RECURSIVE EvaluatePoints(_, _, _)
EvaluatePoints(self, outcomes, i) ==
    IF i > Len(outcomes) THEN self
    ELSE EvaluatePoints(IF outcomes[i]
                        THEN [self EXCEPT !.x = Append(@, InterfaceNTried(self) + 1)]
                        ELSE [self EXCEPT !.x_failed = Append(@, InterfaceNTried(self) + 1)],
                        outcomes, i + 1)

\* the evaluations left of the budget n_init + n_infill
Budget(self) == Max2(self.n_init + self.n_infill - InterfaceNTried(self), 0)

\* the place of the first failing evaluation, or of the last one
FirstFailure(outcomes) ==
    IF \E i \in 1..Len(outcomes) : ~outcomes[i]
    THEN CHOOSE i \in 1..Len(outcomes) : ~outcomes[i] /\ \A j \in 1..(i - 1) : outcomes[j]
    ELSE Len(outcomes)

\* Faulty variant of run_optimization: stops at the first failed evaluation
run_optimization_until_failure(self, outcomes) ==
    EvaluatePoints(self, SubSeq(outcomes, 1, FirstFailure(outcomes)), 1)

\* interface.run_optimization: spends the budget, the initial points first
run_optimization(self, outcomes) == EvaluatePoints(self, outcomes, 1)

\* the results an interface leaves in its results folder
StoredResults(self) == [x |-> self.x, x_failed |-> self.x_failed]

\* interface.initialize_from_previous
initialize_from_previous(self, results) ==
    [self EXCEPT !.x = results.x, !.x_failed = results.x_failed]

\* the tests: ret holds the two interfaces of a test and the results folder
\* they share
InitInterface ==
    /\ \E n_init \in 1..MaxInit, n_infill \in 1..MaxInfill :
          ret = [op |-> "SEGOMOEInterface",
                 interface |-> SEGOMOEInterface(n_init, n_infill),
                 interface2 |-> None,
                 results_folder |-> None]
    /\ criterion = None
    /\ constructed = None
    /\ initialized = FALSE
    /\ calls = <<>>
    /\ NoCall

OnlyInterface == UNCHANGED <<criterion, constructed, initialized, calls, policy, selection>>

RunOptimization ==
    /\ ret.op = "SEGOMOEInterface"
    /\ \E outcomes \in [1..Budget(ret.interface) -> BOOLEAN] :
        \E r \in {run_optimization(ret.interface, outcomes)} :
           ret' = [ret EXCEPT !.op = "interface.run_optimization",
                              !.interface = r,
                              !.results_folder = Some(StoredResults(r))]
    /\ OnlyInterface

SecondInterface ==
    /\ ret.op = "interface.run_optimization"
    /\ \E n_infill \in ret.interface.n_infill..MaxInfill :
          ret' = [ret EXCEPT !.op = "interface2 = SEGOMOEInterface",
                             !.interface2 = Some(SEGOMOEInterface(ret.interface.n_init, n_infill))]
    /\ OnlyInterface

InitializeFromPrevious ==
    /\ ret.op = "interface2 = SEGOMOEInterface"
    /\ ret' = [ret EXCEPT !.op = "interface2.initialize_from_previous",
                          !.interface2 = Some(initialize_from_previous(Get(ret.interface2),
                                                                       Get(ret.results_folder)))]
    /\ OnlyInterface

RunOptimizationSecond ==
    /\ ret.op = "interface2.initialize_from_previous"
    /\ \E outcomes \in [1..Budget(Get(ret.interface2)) -> BOOLEAN] :
        \E r \in {run_optimization(Get(ret.interface2), outcomes)} :
           ret' = [ret EXCEPT !.op = "interface2.run_optimization",
                              !.interface2 = Some(r),
                              !.results_folder = Some(StoredResults(r))]
    /\ OnlyInterface

NextInterface ==
    \/ RunOptimization
    \/ SecondInterface
    \/ InitializeFromPrevious
    \/ RunOptimizationSecond

SpecInterface == InitInterface /\ [][NextInterface]_vars

\* ------------------------------------------------------------------------
\* The elimination loop of EnsembleInfill.select_infill_solutions, pass by
\* pass. selection holds the call: front is the Pareto front the call has
\* computed, opt_pop the front as it stands, removed the passes made.

MaxFront == 5

\* the individuals the populations are made of: six that do not dominate one
\* another, two pairs of them placed alike, and one they dominate
CrowdPool ==
    << Individual(<<0, 9>>, 0), Individual(<<1, 6>>, 0), Individual(<<2, 4>>, 0),
       Individual(<<3, 3>>, 0), Individual(<<6, 1>>, 0), Individual(<<9, 0>>, 0),
       Individual(<<7, 7>>, 0) >>

\* the individuals of CrowdPool at the positions in T, in their order
PickFrom(T) == Let(SortedSeq(T), LAMBDA idx : [i \in 1..Len(idx) |-> CrowdPool[idx[i]]])

\* the ensemble that selects: two acquisition objectives
CrowdSelf ==
    Let(ProblemShape(1, 2, 2, 1), LAMBDA P :
        initialize(EnsembleInfill(Some(MoEnsemble), None), P, SurrogateFor(1, P),
                   Normalization(P, Sc)))

\* an ensemble is asked to select and has got the Pareto front of the
\* population
InitCrowd ==
    /\ \E T \in SUBSET (1..Len(CrowdPool)), n \in 1..MaxInfill :
          /\ T # {} /\ Cardinality(T) <= MaxFront
          /\ \E opt_pop \in {filter_optimum(PickFrom(T))} :
                selection = Some([self |-> CrowdSelf, population |-> PickFrom(T),
                                  n_infill |-> n, front |-> opt_pop, opt_pop |-> opt_pop,
                                  removed |-> 0, out |-> None])
    /\ policy = None
    /\ NoCriterion

OnlySelection == UNCHANGED <<criterion, ret, constructed, initialized, calls, policy>>

\* Faulty variant of InLoop: the loop is entered when more points are asked
\* for than the ensemble has sub-criteria
InLoop_above_members(call) ==
    Len(call.front) > call.n_infill /\ call.n_infill > Len(Get(call.self.infills))

\* the call is past the two returns that come before the loop
InLoop(call) == Len(call.front) > call.n_infill /\ call.n_infill > Get(call.self.n_f_ic)

\* the passes the loop makes: range(len(opt_pop) - n_infill), fixed on entry
Passes(call) == Len(call.front) - call.n_infill

\* the front has no more points than were asked for: all are returned
ReturnAll ==
    /\ Selecting
    /\ Len(Get(selection).front) <= Get(selection).n_infill
    /\ selection' = Some([Get(selection) EXCEPT !.out = Some(Get(selection).front)])
    /\ OnlySelection

\* no more points are asked for than there are acquisition objectives:
\* np.random.choice draws from the front
ChooseAtRandom ==
    /\ Selecting
    /\ Len(Get(selection).front) > Get(selection).n_infill
    /\ Get(selection).n_infill <= Get(Get(selection).self.n_f_ic)
    /\ \E i_select \in [1..Get(selection).n_infill -> 1..Len(Get(selection).front)] :
          selection' = Some([Get(selection) EXCEPT
                                !.out = Some([i \in 1..Get(selection).n_infill |->
                                                 Get(selection).front[i_select[i]]])])
    /\ OnlySelection

\* one pass of the loop
EliminateStep ==
    /\ Selecting /\ InLoop(Get(selection))
    /\ Get(selection).removed < Passes(Get(selection))
    /\ \E i_remove \in MinCrowded(Get(selection).population, Get(selection).opt_pop) :
          selection' = Some([Get(selection) EXCEPT !.opt_pop = RemoveAt(@, i_remove),
                                                   !.removed = @ + 1])
    /\ OnlySelection

\* the return after the loop
ReturnFront ==
    /\ Selecting /\ InLoop(Get(selection))
    /\ Get(selection).removed >= Passes(Get(selection))
    /\ selection' = Some([Get(selection) EXCEPT !.out = Some(Get(selection).opt_pop)])
    /\ OnlySelection

NextCrowd ==
    \/ ReturnAll
    \/ ChooseAtRandom
    \/ EliminateStep
    \/ ReturnFront

\* a call that has started goes on
SpecCrowd == InitCrowd /\ [][NextCrowd]_vars /\ WF_vars(NextCrowd)

\* ------------------------------------------------------------------------
\* The branch EnsembleInfill.select_infill_solutions takes, for ensembles with
\* as many acquisition objectives as sub-criteria and with more

\* the ensembles that select: two sub-criteria of one objective each, three
\* of one objective each, and the two sub-criteria a bare ensemble gives
\* itself on a two-objective problem, of two objectives each
BranchSelves ==
    LET P1 == ProblemShape(1, 1, 0, 0)
        P3 == ProblemShape(1, 2, 2, 1)
        Bound(c, P) == initialize(c, P, SurrogateFor(1, P), Normalization(P, Sc))
    IN {Bound(EnsembleInfill(Some(MoEnsemble), None), P3),
        Bound(EnsembleInfill(Some(SoEnsemble), None), P1),
        Bound(EnsembleInfill(None, None), P3)}

\* individual k of a population with n acquisition objectives: five that do
\* not dominate one another, and a sixth they dominate
BranchIndividual(k, n) ==
    Individual([j \in 1..n |-> IF k = 6 THEN 7
                               ELSE IF j = 1 THEN k
                               ELSE IF j = 2 THEN 6 - k
                               ELSE 0], 0)

\* the individuals at the positions in T, in their order
BranchPopulation(T, n) ==
    Let(SortedSeq(T), LAMBDA idx : [i \in 1..Len(idx) |-> BranchIndividual(idx[i], n)])

\* an ensemble is asked to select and has got the Pareto front of the
\* population
InitBranch ==
    /\ \E c \in BranchSelves, T \in SUBSET (1..6), n \in 1..MaxInfill :
          /\ T # {} /\ Cardinality(T) <= MaxFront
          /\ \E population \in {BranchPopulation(T, Get(c.n_f_ic))} :
             \E opt_pop \in {filter_optimum(population)} :
                selection = Some([self |-> c, population |-> population,
                                  n_infill |-> n, front |-> opt_pop, opt_pop |-> opt_pop,
                                  removed |-> 0, out |-> None])
    /\ policy = None
    /\ NoCriterion

SpecBranch == InitBranch /\ [][NextCrowd]_vars

\* ------------------------------------------------------------------------
\* The Pareto front MinimumPoIInfill keeps, over initialize and set_samples
\* calls

\* the problems the criterion is bound to: one objective with one constraint,
\* and two objectives without constraints; both have outputs of two columns
FrontArgs ==
    LET PA == ProblemShape(1, 1, 1, 1)
        PB == ProblemShape(1, 2, 0, 0)
    IN {[problem |-> PA, surrogate_model |-> SurrogateFor(1, PA), normalization |-> Normalization(PA, Sc)],
        [problem |-> PB, surrogate_model |-> SurrogateFor(2, PB), normalization |-> Normalization(PB, Sc)]}

\* the training sets: outputs of two columns
FrontTrainSets ==
    {[x_train |-> << <<0>>, <<Sc>>, <<Sc>> >>,
      y_train |-> << <<0, Sc>>, <<Sc, 0>>, <<Sc, Sc>> >>],
     [x_train |-> << <<0>>, <<Sc>> >>,
      y_train |-> << <<Sc, 0>>, <<2 * Sc, 0 - Sc>> >>],
     [x_train |-> << <<Sc>>, <<0>> >>,
      y_train |-> << <<0, 0>>, <<0, Sc>> >>]}

FrontCriteria == {MinimumPoIInfill(e, cs) : e \in BOOLEAN, cs \in Strategies}

InitFront ==
    /\ criterion \in FrontCriteria
    /\ constructed = criterion
    /\ ret = [op |-> "__init__", exc |-> "", val |-> None]
    /\ initialized = FALSE
    /\ calls = <<>>
    /\ NoCall

InitializeFront ==
    \E a \in FrontArgs :
        /\ criterion' = initialize(criterion, a.problem, a.surrogate_model, a.normalization)
        /\ ret' = [op |-> "initialize", exc |-> "", val |-> None]
        /\ initialized' = TRUE
        /\ UNCHANGED <<constructed, calls, policy, selection>>

SetSamplesFront ==
    \E t \in FrontTrainSets :
        \E r \in {set_samples(criterion, t.x_train, t.y_train)} :
           /\ criterion' = r.val
           /\ ret' = [op |-> "set_samples", exc |-> r.exc, val |-> None]
           /\ UNCHANGED <<constructed, initialized, calls, policy, selection>>

NextFront ==
    \/ InitializeFront
    \/ SetSamplesFront

SpecFront == InitFront /\ [][NextFront]_vars

\* ------------------------------------------------------------------------
\* evaluate calls that fail, on a criterion that may have logged before

\* the criteria that are evaluated: one that needs no variance, one that
\* needs the training set, and an ensemble
FailCriteria ==
    {FunctionEstimateInfill,
     ExpectedImprovementInfill(None),
     EnsembleInfill(Some(MoEnsemble), None)}

\* what the surrogate does in one of these calls: it answers, or one of its
\* two queries fails with an error that is not a FloatingPointError
FailFaults == {"none", "predict_error", "variance_error"}

InitFail ==
    /\ criterion \in FailCriteria
    /\ constructed = criterion
    /\ ret = [op |-> "__init__", exc |-> "", val |-> None]
    /\ initialized = FALSE
    /\ calls = <<>>
    /\ NoCall

EvaluateFail ==
    /\ Len(criterion.f_infill_log) <= MaxLog
    /\ \E x \in XBatches, fault \in FailFaults, dt \in Ticks :
        \E r \in {evaluate(criterion, x, fault, dt)} :
           /\ criterion' = r.self
           /\ ret' = [op |-> "evaluate", exc |-> r.exc, val |-> r.val, fault |-> fault]
           /\ calls' = IF Failed(r) THEN calls
                       ELSE Append(calls, [k |-> Len(x), f |-> r.val[1][1], g |-> r.val[1][2]])
           /\ UNCHANGED <<constructed, initialized, policy, selection>>

NextFail ==
    \/ Initialize
    \/ SetSamples
    \/ EvaluateFail

SpecFail == InitFail /\ [][NextFail]_vars

\* ------------------------------------------------------------------------
\* The variance queries of predict_variance, on a surrogate whose answer
\* differs from row to row

MaxRows == 3

\* the problems the criterion is bound to; the surrogate of the second
\* answers every point of VarianceBatches differently
VarianceArgs ==
    LET P1 == ProblemShape(1, 1, 0, 0)
        P3 == ProblemShape(1, 2, 2, 1)
    IN {[problem |-> P1, surrogate_model |-> SurrogateFor(2, P1), normalization |-> Normalization(P1, Sc)],
        [problem |-> P3, surrogate_model |-> SurrogateFor(1, P3), normalization |-> Normalization(P3, 2 * Sc)]}

\* the batches: up to MaxRows rows of one variable
VarianceBatches == UNION {[1..k -> {<<0>>, <<Sc>>}] : k \in 1..MaxRows}

VarianceCriteria ==
    {FunctionEstimateInfill, LowerConfidenceBoundInfill(None), EnsembleInfill(Some(MoEnsemble), None)}

InitVariance ==
    /\ criterion \in VarianceCriteria
    /\ constructed = criterion
    /\ ret = [op |-> "__init__", exc |-> "", val |-> None]
    /\ initialized = FALSE
    /\ calls = <<>>
    /\ NoCall

InitializeVariance ==
    \E a \in VarianceArgs :
        /\ criterion' = initialize(criterion, a.problem, a.surrogate_model, a.normalization)
        /\ ret' = [op |-> "initialize", exc |-> "", val |-> None]
        /\ initialized' = TRUE
        /\ UNCHANGED <<constructed, calls, policy, selection>>

\* predict_variance, with the queries the surrogate received
PredictVarianceQueried ==
    \E x \in VarianceBatches, fault \in AdapterFaults \ {"predict_fpe", "predict_error"} :
        \E r \in {predict_variance(criterion, x, fault)} :
           /\ ret' = [op |-> "predict_variance", exc |-> r.exc, val |-> r.val,
                      x |-> x, fault |-> fault, queries |-> r.queries]
           /\ UNCHANGED <<criterion, constructed, initialized, calls, policy, selection>>

NextVariance ==
    \/ InitializeVariance
    \/ PredictVarianceQueried

SpecVariance == InitVariance /\ [][NextVariance]_vars

\* ------------------------------------------------------------------------
\* The minimum probability of improvement on predicted objectives

MaxObjectives == 2

\* the predicted objective means and variances
MpoiMeans == {0 - Sc, 0, Sc \div 2, 2 * Sc}
MpoiVariances == {0, Sc \div 4, 4 * Sc}

\* the Pareto fronts with n objectives: the origin alone, and the points that
\* are 0 in one objective and 1 in the others
MpoiFronts(n) ==
    {<< [j \in 1..n |-> 0] >>,
     IF n = 1 THEN << <<Sc>> >>
     ELSE [r \in 1..n |-> [j \in 1..n |-> IF j = r THEN 0 ELSE Sc]]}

\* the criterion, plain or euclidean, is asked for its value at one query
\* point, given the Pareto front of the training set
InitMpoi ==
    /\ \E n \in 1..MaxObjectives, euclidean \in BOOLEAN :
          \E f_pareto \in MpoiFronts(n),
             f \in [1..n -> MpoiMeans], f_var \in [1..n -> MpoiVariances] :
             ret = [op |-> "get_mpoi_f", euclidean |-> euclidean, f_pareto |-> f_pareto,
                    f |-> <<f>>, f_var |-> <<f_var>>, n_f_ic |-> None, out |-> None]
    /\ OnlyRet

GetMpoiF ==
    /\ ret.op = "get_mpoi_f"
    /\ IsNone(ret.out)
    /\ ret' = [ret EXCEPT
                 !.n_f_ic = Some(get_n_infill_objectives(MinimumPoIInfill(ret.euclidean, None)).val),
                 !.out = Some(get_mpoi_f(ret.f, ret.f_var, ret.f_pareto, ret.euclidean))]
    /\ UNCHANGED <<criterion, constructed, initialized, calls, policy, selection>>

NextMpoi == GetMpoiF

SpecMpoi == InitMpoi /\ [][NextMpoi]_vars

\* ------------------------------------------------------------------------
\* The Jenatton test problem (problems/hierarchical.py); x[i + 1] here is
\* xi[i] there

\* des_vars: x1, x2, x3 are choices between 0 and 1; x4 .. x7, r8, r9 are
\* reals between 0 and 1, here their two ends
JenattonDesVars ==
    {x \in [1..9 -> {0, Sc}] : \A i \in 1..3 : x[i] = 0}
JenattonChoices == [1..3 -> {0, 1}]
JenattonDesignVectors ==
    {[i \in 1..9 |-> IF i <= 3 THEN c[i] ELSE x[i]] : c \in JenattonChoices, x \in JenattonDesVars}

\* Jenatton._arch_evaluate, for one design vector
Jenatton_arch_evaluate(xi) ==
    IF xi[1] = 0
    THEN IF xi[2] = 0
         THEN FAdd(FAdd(FMul(xi[4], xi[4]), Sc \div 10), xi[8])
         ELSE FAdd(FAdd(FMul(xi[5], xi[5]), Sc \div 10), xi[8])
    ELSE IF xi[3] = 0
         THEN FAdd(FAdd(FMul(xi[6], xi[6]), Sc \div 10), xi[9])
         ELSE FAdd(FAdd(FMul(xi[7], xi[7]), Sc \div 10), xi[9])

\* Jenatton._correct_x, for one design vector: the indices [2, 5, 6, 8] of
\* the first loop are 3, 6, 7, 9 here, the indices [1, 4, 5, 7] of the second
\* are 2, 5, 6, 8
Jenatton_correct_x(xi, is_active) ==
    [i \in 1..9 |->
        IF xi[1] = 0 /\ i \in {3, 6, 7, 9} THEN FALSE
        ELSE IF xi[1] = 0 /\ xi[2] = 0 /\ i = 5 THEN FALSE
        ELSE IF xi[1] = 0 /\ xi[2] = 1 /\ i = 4 THEN FALSE
        ELSE IF xi[1] = 1 /\ i \in {2, 5, 6, 8} THEN FALSE
        ELSE IF xi[1] = 1 /\ xi[3] = 0 /\ i = 7 THEN FALSE
        ELSE IF xi[1] = 1 /\ xi[3] = 1 /\ i = 6 THEN FALSE
        ELSE is_active[i]]

\* two design vectors are handed to the problem; every variable starts out
\* marked active
InitJenatton ==
    /\ \E xa \in JenattonDesignVectors, xb \in JenattonDesignVectors :
          ret = [op |-> "_arch_evaluate", x |-> <<xa, xb>>,
                 is_active |-> None, f_out |-> None]
    /\ OnlyRet

\* both are corrected and evaluated
JenattonEvaluate ==
    /\ ret.op = "_arch_evaluate"
    /\ IsNone(ret.f_out)
    /\ ret' = [ret EXCEPT
                 !.is_active = Some([i \in 1..2 |->
                                        Jenatton_correct_x(ret.x[i], [v \in 1..9 |-> TRUE])]),
                 !.f_out = Some([i \in 1..2 |-> <<Jenatton_arch_evaluate(ret.x[i])>>])]
    /\ UNCHANGED <<criterion, constructed, initialized, calls, policy, selection>>

NextJenatton == JenattonEvaluate

SpecJenatton == InitJenatton /\ [][NextJenatton]_vars

\* ------------------------------------------------------------------------
\* The guidance, navigation and control problem (problems/gnc.py); position
\* p + 1 of a sequence here is index p of the list or array there

MaxNMax == 2
MaxVaried == 2

\* GNCProblemBase.__init__
GNCProblemBase(choose_nr, n_max, choose_type, actuators) ==
    [choose_nr |-> choose_nr, n_max |-> n_max, choose_type |-> choose_type,
     actuators |-> actuators]

\* n_obj_types = 3 if self.actuators else 2
n_obj_types(self) == IF self.actuators THEN 3 ELSE 2

\* GNCProblemBase._get_des_vars: one Integer per object type for the number
\* of instances, n_max Choices of A, B, C (0, 1, 2) per object type, and
\* n_max * n_max Choices of False, True (0, 1) per pair of adjacent object
\* types; each variable is tagged with the round of the loop that appends it
\* (object type or pair obj, instance i, target instance j)
_get_des_vars(self) ==
    (IF self.choose_nr
     THEN [k \in 1..n_obj_types(self) |->
              [of |-> "nr", options |-> 1..self.n_max, obj |-> k - 1, i |-> 0, j |-> 0]]
     ELSE <<>>)
    \o
    (IF self.choose_type
     THEN [k \in 1..(n_obj_types(self) * self.n_max) |->
              [of |-> "type", options |-> 0..2,
               obj |-> (k - 1) \div self.n_max, i |-> (k - 1) % self.n_max, j |-> 0]]
     ELSE <<>>)
    \o
    [k \in 1..((n_obj_types(self) - 1) * self.n_max * self.n_max) |->
        [of |-> "conn", options |-> 0..1,
         obj |-> (k - 1) \div (self.n_max * self.n_max),
         i |-> ((k - 1) % (self.n_max * self.n_max)) \div self.n_max,
         j |-> (k - 1) % self.n_max]]

n_var(self) == Len(_get_des_vars(self))

\* the rounds of `for _ in range(n_obj_types): for i in range(self.n_max)`
TypeRounds(self) ==
    [r \in 1..(n_obj_types(self) * self.n_max) |-> [i |-> (r - 1) % self.n_max]]

\* the rounds of `for _ in range(n_obj_types-1): for i in range(self.n_max):
\* for j in range(self.n_max)`
ConnRounds(self) ==
    [r \in 1..((n_obj_types(self) - 1) * self.n_max * self.n_max) |->
        [i |-> ((r - 1) % (self.n_max * self.n_max)) \div self.n_max,
         j |-> (r - 1) % self.n_max]]

\* i_dv at the start of round r of the loop over the type variables: the
\* loop over the numbers of instances has stepped it n_obj_types times, and
\* `i_dv += 1` is in the body of `if i == 0`, so that only the earlier rounds
\* with i = 0 have stepped it
TypeDv(self, r) ==
    n_obj_types(self) + Cardinality({q \in 1..(r - 1) : TypeRounds(self)[q].i = 0})

\* i_dv at the start of round r of the loop over the connection variables,
\* which steps it in every round
ConnDv(self, r) ==
    (IF self.choose_type THEN TypeDv(self, Len(TypeRounds(self)) + 1)
     ELSE n_obj_types(self))
    + (r - 1)

\* GNCProblemBase._is_conditionally_active: is_cond_act[i_dv] = False in
\* every round of the first loop, in the rounds with i = 0 of the second and
\* in the rounds with i = 0 and j = 0 of the third
_is_conditionally_active(self) ==
    IF ~self.choose_nr THEN [p \in 1..n_var(self) |-> FALSE]
    ELSE [p \in 1..n_var(self) |->
             ~ \/ p - 1 < n_obj_types(self)
               \/ /\ self.choose_type
                  /\ \E r \in 1..Len(TypeRounds(self)) :
                        TypeRounds(self)[r].i = 0 /\ TypeDv(self, r) = p - 1
               \/ \E r \in 1..Len(ConnRounds(self)) :
                     /\ ConnRounds(self)[r].i = 0 /\ ConnRounds(self)[r].j = 0
                     /\ ConnDv(self, r) = p - 1]

\* n_inst of _correct_x: the number of instantiated objects of each type
n_inst(self, x_i) ==
    [k \in 1..n_obj_types(self) |-> IF self.choose_nr THEN x_i[k] ELSE self.n_max]

\* the type correction of _correct_x for one object type, from instance dj on
RECURSIVE CorrectTypes(_, _, _, _)
CorrectTypes(x_obj_type, n_obj, dj, last_type_sel) ==
    IF dj >= n_obj THEN x_obj_type
    ELSE IF x_obj_type[dj + 1] < last_type_sel
         THEN CorrectTypes([x_obj_type EXCEPT ![dj + 1] = last_type_sel], n_obj, dj + 1,
                           last_type_sel)
         ELSE CorrectTypes(x_obj_type, n_obj, dj + 1, x_obj_type[dj + 1])

\* where the type variables and the connection variables start in _correct_x
TypeStart(self) == IF self.choose_nr THEN n_obj_types(self) ELSE 0
ConnStart(self) ==
    TypeStart(self) + (IF self.choose_type THEN n_obj_types(self) * self.n_max ELSE 0)

\* x_i[j:j+n_max] of object type k
TypeBlock(self, x_i, k) ==
    [d \in 1..self.n_max |-> x_i[TypeStart(self) + k * self.n_max + d]]

\* x_i[j:j+n_x_conn].reshape((n_max, n_max)) of pair i_conn, at [i_src, i_tgt]
ConnAt(self, x_i, i_conn, i_src, i_tgt) ==
    x_i[ConnStart(self) + i_conn * self.n_max * self.n_max + i_src * self.n_max + i_tgt + 1]

\* np.sum(x_conn_active, axis=1)[i_src] and np.sum(x_conn_active, axis=0)[i_tgt]
RECURSIVE SumTo(_, _)
SumTo(f, n) == IF n = 0 THEN 0 ELSE f[n] + SumTo(f, n - 1)
SumOfSource(self, x_i, i_conn, i_src, n_tgt) ==
    SumTo([t \in 1..n_tgt |-> ConnAt(self, x_i, i_conn, i_src, t - 1)], n_tgt)
SumOfTarget(self, x_i, i_conn, i_tgt, n_src) ==
    SumTo([s \in 1..n_src |-> ConnAt(self, x_i, i_conn, s - 1, i_tgt)], n_src)

\* _correct_x after the type correction
TypesCorrected(self, x_i) ==
    [p \in 1..Len(x_i) |->
        IF self.choose_type /\ p > TypeStart(self) /\ p <= ConnStart(self)
        THEN CorrectTypes(TypeBlock(self, x_i, (p - TypeStart(self) - 1) \div self.n_max),
                          n_inst(self, x_i)[(p - TypeStart(self) - 1) \div self.n_max + 1],
                          1,
                          TypeBlock(self, x_i, (p - TypeStart(self) - 1) \div self.n_max)[1])
                 [((p - TypeStart(self) - 1) % self.n_max) + 1]
        ELSE x_i[p]]

\* Faulty variant of the loop over the sources: a source without a
\* connection is connected to the target of its own index
SourcesConnected_same_index(self, des_vars, x_i) ==
    [p \in 1..Len(x_i) |->
        IF /\ des_vars[p].of = "conn"
           /\ des_vars[p].i < n_inst(self, x_i)[des_vars[p].obj + 1]
           /\ SumOfSource(self, x_i, des_vars[p].obj, des_vars[p].i,
                          n_inst(self, x_i)[des_vars[p].obj + 2]) = 0
           /\ des_vars[p].j = des_vars[p].i
        THEN 1 ELSE x_i[p]]

\* _correct_x after the loop over the sources: a source without a connection
\* is connected to the target of its own index, or to the last one
SourcesConnected(self, des_vars, x_i) ==
    [p \in 1..Len(x_i) |->
        IF /\ des_vars[p].of = "conn"
           /\ des_vars[p].i < n_inst(self, x_i)[des_vars[p].obj + 1]
           /\ SumOfSource(self, x_i, des_vars[p].obj, des_vars[p].i,
                          n_inst(self, x_i)[des_vars[p].obj + 2]) = 0
           /\ des_vars[p].j = Min2(des_vars[p].i, n_inst(self, x_i)[des_vars[p].obj + 2] - 1)
        THEN 1 ELSE x_i[p]]

\* _correct_x after the loop over the targets
TargetsConnected(self, des_vars, x_i) ==
    [p \in 1..Len(x_i) |->
        IF /\ des_vars[p].of = "conn"
           /\ des_vars[p].j < n_inst(self, x_i)[des_vars[p].obj + 2]
           /\ SumOfTarget(self, x_i, des_vars[p].obj, des_vars[p].j,
                          n_inst(self, x_i)[des_vars[p].obj + 1]) = 0
           /\ des_vars[p].i = Min2(des_vars[p].j, n_inst(self, x_i)[des_vars[p].obj + 1] - 1)
        THEN 1 ELSE x_i[p]]

\* the activeness _correct_x leaves: the type variables from instance n_obj
\* on, and the connection variables from source n_src and from target n_tgt
\* on, are set to False
Deactivated(self, des_vars, x_i, is_active_i) ==
    [p \in 1..Len(x_i) |->
        IF des_vars[p].of = "type" /\ des_vars[p].i >= n_inst(self, x_i)[des_vars[p].obj + 1]
        THEN FALSE
        ELSE IF /\ des_vars[p].of = "conn"
                /\ \/ des_vars[p].i >= n_inst(self, x_i)[des_vars[p].obj + 1]
                   \/ des_vars[p].j >= n_inst(self, x_i)[des_vars[p].obj + 2]
        THEN FALSE
        ELSE is_active_i[p]]

\* GNCProblemBase._correct_x, for one design vector
GNC_correct_x(self, x_i, is_active_i) ==
    [x |-> TargetsConnected(self, _get_des_vars(self),
               SourcesConnected(self, _get_des_vars(self), TypesCorrected(self, x_i))),
     is_active |-> Deactivated(self, _get_des_vars(self), x_i, is_active_i)]

\* the problems: with and without each of the three choices
GncProblems ==
    {GNCProblemBase(choose_nr, n_max, choose_type, actuators) :
        choose_nr \in BOOLEAN, n_max \in 1..MaxNMax, choose_type \in BOOLEAN,
        actuators \in BOOLEAN}

\* a problem is constructed; the design vector starts at the first option of
\* every variable
InitGnc ==
    /\ \E self \in GncProblems :
          ret = [op |-> "_correct_x", self |-> self, des_vars |-> _get_des_vars(self),
                 is_cond_act |-> _is_conditionally_active(self),
                 x |-> [p \in 1..n_var(self) |->
                           IF _get_des_vars(self)[p].of = "nr" THEN 1 ELSE 0],
                 n_varied |-> 0, out |-> None]
    /\ OnlyRet

\* one design variable takes another of its options
VaryDesVar ==
    /\ ret.op = "_correct_x"
    /\ IsNone(ret.out)
    /\ ret.n_varied < MaxVaried
    /\ \E p \in 1..Len(ret.x) : \E v \in ret.des_vars[p].options :
          /\ v # ret.x[p]
          /\ ret' = [ret EXCEPT !.x[p] = v, !.n_varied = @ + 1]
    /\ UNCHANGED <<criterion, constructed, initialized, calls, policy, selection>>

\* the design vector is corrected; every variable is marked active before
CorrectX ==
    /\ ret.op = "_correct_x"
    /\ IsNone(ret.out)
    /\ ret' = [ret EXCEPT
                 !.out = Some(GNC_correct_x(ret.self, ret.x, [p \in 1..Len(ret.x) |-> TRUE]))]
    /\ UNCHANGED <<criterion, constructed, initialized, calls, policy, selection>>

NextGnc == VaryDesVar \/ CorrectX

SpecGnc == InitGnc /\ [][NextGnc]_vars

\* ------------------------------------------------------------------------
\* Properties of the life cycle

IsEnsemble(c) == c.kind = "EnsembleInfill"

\* the criterion answers get_n_infill_objectives without a bound problem:
\* MinimumPoIInfill, and an ensemble given only such sub-criteria
AnswersUnbound(c) ==
    \/ c.kind = "MinimumPoIInfill"
    \/ /\ IsEnsemble(c)
       /\ ~IsNone(c.infills)
       /\ \A i \in 1..Len(Get(c.infills)) : Get(c.infills)[i].kind = "MinimumPoIInfill"

\* C1 as stated: on a criterion initialize was never called on, evaluate and
\* get_n_infill_objectives fail and return no value, whatever the variant.
C1_FailsBeforeInitialize ==
    (~initialized /\ ret.op \in {"evaluate", "get_n_infill_objectives"})
        => (ret.exc # "" /\ IsNone(ret.val))

\* C1 amended: on a criterion initialize was never called on, evaluate fails for
\* every variant; get_n_infill_objectives fails for every variant except
\* MinimumPoIInfill, which returns 1, and an ensemble constructed with only
\* MinimumPoIInfill sub-criteria, which returns their number.
C1_FailsBeforeInitializeUnlessConstant ==
    /\ (~initialized /\ ret.op = "evaluate") => (ret.exc # "" /\ IsNone(ret.val))
    /\ (~initialized /\ ret.op = "get_n_infill_objectives") =>
          IF AnswersUnbound(criterion)
          THEN /\ ret.exc = ""
               /\ ret.val = Some(IF IsEnsemble(criterion)
                                 THEN Len(Get(criterion.infills)) ELSE 1)
          ELSE ret.exc # "" /\ IsNone(ret.val)

\* an unbound FunctionEstimateInfill has been asked for its arity, and failed
C1_Witness ==
    /\ ~initialized
    /\ ret.op = "get_n_infill_objectives"
    /\ criterion.kind = "FunctionEstimateInfill"
    /\ ret.exc = "AttributeError"

\* the four fields of the infill log
InfillLog(c) == <<c.f_infill_log, c.g_infill_log, c.n_eval_infill, c.time_eval_infill>>

\* the training set and the three bound collaborators
Binding(c) == <<c.x_train, c.y_train, c.problem, c.surrogate_model, c.normalization>>

\* C3: initialize (a first one or a re-initialization) and set_samples leave
\* the four fields of the infill log as they are; a step that shortens a log
\* or lowers a counter is a reset_infill_log; and reset_infill_log empties the
\* log and leaves x_train, y_train, problem, surrogate and normalization alone.
C3_LogResetOnlyExplicitly ==
    [][ /\ ret'.op \in {"initialize", "set_samples"} =>
               InfillLog(criterion') = InfillLog(criterion)
        /\ ( \/ Len(criterion'.f_infill_log) < Len(criterion.f_infill_log)
             \/ Len(criterion'.g_infill_log) < Len(criterion.g_infill_log)
             \/ criterion'.n_eval_infill < criterion.n_eval_infill
             \/ criterion'.time_eval_infill < criterion.time_eval_infill )
               => ret'.op = "reset_infill_log"
        /\ ret'.op = "reset_infill_log" =>
               /\ InfillLog(criterion') = <<<<>>, <<>>, 0, 0>>
               /\ Binding(criterion') = Binding(criterion)
      ]_vars

\* a criterion holding samples and a bound problem has just been reset
C3_Witness ==
    /\ ret.op = "reset_infill_log"
    /\ ~IsNone(criterion.x_train)
    /\ ~IsNone(criterion.problem)
    /\ InfillLog(criterion) = <<<<>>, <<>>, 0, 0>>
    /\ constructed # criterion

\* C4 as stated: once initialized and given samples, a successful evaluate on k
\* points returns f_infill with k rows and get_n_infill_objectives() columns
\* and g_infill with k rows and get_n_infill_constraints() columns, for every
\* variant, strategy and problem shape.
C4_DeclaredShapes ==
    (initialized /\ ~IsNone(criterion.x_train) /\ ret.op = "evaluate" /\ ret.exc = "")
        => LET f_infill == Get(ret.val)[1]
               g_infill == Get(ret.val)[2]
               k == calls[Len(calls)].k
           IN /\ Rows(f_infill) = k
              /\ \A i \in 1..k : Len(f_infill[i]) = get_n_infill_objectives(criterion).val
              /\ Rows(g_infill) = k
              /\ get_n_infill_constraints(criterion).exc = ""
              /\ \A i \in 1..k : Len(g_infill[i]) = get_n_infill_constraints(criterion).val

\* the sum of the arities the sub-criteria declare
SumOfSubArities(c) ==
    SumSeq([i \in 1..Len(Get(c.infills)) |-> get_n_infill_objectives(Get(c.infills)[i]).val])

KindsOf(infills) == [i \in 1..Len(infills) |-> infills[i].kind]

\* C7 as stated: after initialize the arity of an ensemble, and its cached
\* n_f_ic, is the sum of the arities of its sub-criteria, and an ensemble of
\* default sub-criteria (those of the default policy, or those the ensemble
\* gives itself) on a single-objective problem has 3 members and arity 3.
C7_SumAndDefaultOfThree ==
    (initialized /\ IsEnsemble(criterion)) =>
        /\ get_n_infill_objectives(criterion) = Ok(SumOfSubArities(criterion))
        /\ criterion.n_f_ic = Some(SumOfSubArities(criterion))
        /\ (constructed.infills \in {None, Some(SoEnsemble)} /\ criterion.n_obj = 1) =>
              /\ Len(Get(criterion.infills)) = 3
              /\ criterion.n_f_ic = Some(3)

\* C7 amended, in every state: after initialize the arity of an ensemble, and
\* its cached n_f_ic, is the sum of the arities of its sub-criteria; the
\* single-objective ensemble of the default policy (EI, LCB, PoI) has 3
\* members and arity 3 on a single-objective problem.
C7_SumOfSubArities ==
    (initialized /\ IsEnsemble(criterion)) =>
        /\ get_n_infill_objectives(criterion) = Ok(SumOfSubArities(criterion))
        /\ criterion.n_f_ic = Some(SumOfSubArities(criterion))
        /\ (constructed.infills = Some(SoEnsemble) /\ criterion.n_obj = 1) =>
              /\ Len(Get(criterion.infills)) = 3
              /\ criterion.n_f_ic = Some(3)

\* C7 amended, in every step: an ensemble constructed without sub-criteria
\* gives itself, at its first initialize, the four criteria mean estimate,
\* LCB, EI and PoI on a single-objective problem (arity 4) and the two
\* criteria mean estimate and LCB otherwise.
C7_OwnDefaults ==
    (IsEnsemble(criterion) /\ IsNone(criterion.infills) /\ ret'.op = "initialize") =>
        IF criterion'.n_obj = 1
        THEN /\ KindsOf(Get(criterion'.infills)) =
                   <<"FunctionEstimateConstrainedInfill", "LowerConfidenceBoundInfill",
                     "ExpectedImprovementInfill", "ProbabilityOfImprovementInfill">>
             /\ criterion'.n_f_ic = Some(4)
        ELSE /\ KindsOf(Get(criterion'.infills)) =
                   <<"FunctionEstimateConstrainedInfill", "LowerConfidenceBoundInfill">>
             /\ criterion'.n_f_ic = Some(2 * criterion'.n_obj)

\* C7 amended: the arity of an initialized ensemble is the sum of the arities
\* of its sub-criteria; the default policy's single-objective ensemble has 3
\* members and arity 3; an ensemble constructed without sub-criteria has 4
\* members and arity 4 when first initialized on a single-objective problem.
C7_EnsembleArity == []C7_SumOfSubArities /\ [][C7_OwnDefaults]_vars

\* an ensemble whose sub-criteria declare two objectives each is initialized
C7_Witness ==
    /\ initialized
    /\ IsEnsemble(criterion)
    /\ Len(Get(criterion.infills)) = 2
    /\ criterion.n_f_ic = Some(4)

SameStrategy(a, b) == a.kind = b.kind /\ a.min_pof = b.min_pof

\* C8: after one or more initialize calls on an ensemble every sub-criterion
\* is bound to the ensemble's problem, surrogate and normalization, is itself
\* initialized, uses the Ignore strategy and declares 0 infill constraints,
\* whatever strategy it was constructed with; the ensemble's own strategy is
\* the one it was constructed with.
C8_SubCriteriaIgnoreConstraints ==
    (initialized /\ IsEnsemble(criterion)) =>
        /\ \A i \in 1..Len(Get(criterion.infills)) :
              LET sub == Get(criterion.infills)[i]
              IN /\ sub.problem = criterion.problem
                 /\ sub.surrogate_model = criterion.surrogate_model
                 /\ sub.normalization = criterion.normalization
                 /\ ~IsNone(sub.problem)
                 /\ ~IsNone(sub.n_f_ic)
                 /\ Get(sub.constraint_strategy).kind = "IgnoreConstraints"
                 /\ get_n_infill_constraints(sub) = Ok(0)
        /\ SameStrategy(Get(criterion.constraint_strategy), Get(constructed.constraint_strategy))
        /\ Get(criterion.constraint_strategy).problem = criterion.problem

\* an ensemble with a strategy of its own, given a sub-criterion constructed
\* with a probability-of-feasibility strategy, has been initialized twice
C8_Witness ==
    /\ initialized
    /\ IsEnsemble(criterion)
    /\ ~IsNone(constructed.infills)
    /\ \E i \in 1..Len(Get(constructed.infills)) :
          Get(Get(constructed.infills)[i].constraint_strategy).kind = "ProbabilityOfFeasibility"
    /\ Get(criterion.constraint_strategy).kind = "ProbabilityOfFeasibility"
    /\ Len(criterion.f_infill_log) > 0
    /\ ret.op = "initialize"

\* ------------------------------------------------------------------------
\* Properties of the infill log

\* the rows of the recorded calls, added up
RECURSIVE SumOfRows(_)
SumOfRows(cs) == IF Len(cs) = 0 THEN 0 ELSE cs[1].k + SumOfRows(Tail(cs))

IsPrefix(a, b) == Len(a) <= Len(b) /\ \A i \in 1..Len(a) : a[i] = b[i]

\* C2, in every state: after n successful evaluate calls since construction or
\* the last reset, f_infill_log and g_infill_log hold n entries, entry i is
\* what the i-th call returned, and n_eval_infill is the sum of the rows of
\* the n batches.
C2_LogIsTheCalls ==
    /\ Len(criterion.f_infill_log) = Len(calls)
    /\ Len(criterion.g_infill_log) = Len(calls)
    /\ \A i \in 1..Len(calls) :
          /\ criterion.f_infill_log[i] = calls[i].f
          /\ criterion.g_infill_log[i] = calls[i].g
    /\ criterion.n_eval_infill = SumOfRows(calls)

\* C2, in every step: an evaluate, successful or not, and a set_samples keep
\* every earlier entry of the two logs in its place.
C2_EntriesStay ==
    ret'.op \in {"evaluate", "set_samples"} =>
        /\ IsPrefix(criterion.f_infill_log, criterion'.f_infill_log)
        /\ IsPrefix(criterion.g_infill_log, criterion'.g_infill_log)

\* C2: the two logs hold, in call order, what the successful evaluate calls
\* since construction or the last reset returned, n_eval_infill is the sum of
\* their batch sizes, and no later evaluate or set_samples changes or removes
\* an earlier entry.
C2_LogInCallOrder == []C2_LogIsTheCalls /\ [][C2_EntriesStay]_vars

\* two successful calls on batches of different sizes have been logged
C2_Witness ==
    /\ Len(calls) = 2
    /\ calls[1].k # calls[2].k
    /\ calls[1].f # calls[2].f
    /\ ret.op = "evaluate"
    /\ ret.exc = ""
    /\ ~IsNone(criterion.x_train)
    /\ criterion.n_eval_infill = 3

\* ------------------------------------------------------------------------
\* Properties of the default policy

\* the effective n_parallel of a call: the argument if passed, else the
\* problem's declared batch capacity, else 1
ParallelOf(call) ==
    IF call.n_parallel # None THEN call.n_parallel[1]
    ELSE IF call.problem.n_batch_evaluate # None THEN call.problem.n_batch_evaluate[1]
    ELSE 1

KindSet(infills) == {infills[i].kind : i \in 1..Len(infills)}

\* an ensemble of exactly EI, LCB and PoI
IsSoEnsemble(infill) ==
    /\ infill.kind = "EnsembleInfill"
    /\ ~IsNone(infill.infills)
    /\ Len(Get(infill.infills)) = 3
    /\ KindSet(Get(infill.infills)) =
          {"ExpectedImprovementInfill", "LowerConfidenceBoundInfill",
           "ProbabilityOfImprovementInfill"}

\* an ensemble of exactly MinimumPoI and MinimumPoI with euclidean=True
IsMoEnsemble(infill) ==
    /\ infill.kind = "EnsembleInfill"
    /\ ~IsNone(infill.infills)
    /\ Len(Get(infill.infills)) = 2
    /\ KindSet(Get(infill.infills)) = {"MinimumPoIInfill"}
    /\ {Get(infill.infills)[i].euclidean : i \in 1..2} = BOOLEAN

Returned(call) == ~IsNone(call.out)

\* C5: whenever n_parallel (passed, or taken from the problem) is above 1,
\* get_default_infill returns the {EI, LCB, PoI} ensemble if n_obj = 1 and the
\* {MPoI, MPoI-euclidean} ensemble if n_obj > 1, with batch size n_parallel,
\* whatever the variable types are.
C5_ParallelGivesEnsemble ==
    (~IsNone(policy) /\ Returned(Get(policy)) /\ ParallelOf(Get(policy)) > 1) =>
        LET call == Get(policy)
            out == Get(call.out)
        IN /\ out[2] = ParallelOf(call)
           /\ IF call.problem.n_obj = 1 THEN IsSoEnsemble(out[1]) ELSE IsMoEnsemble(out[1])

\* a continuous single-objective problem was asked about with n_parallel = 2
C5_Witness ==
    /\ ~IsNone(policy)
    /\ Returned(Get(policy))
    /\ Get(policy).n_parallel = Some(2)
    /\ Get(policy).problem.n_obj = 1
    /\ \A i \in DOMAIN Get(policy).problem.is_cont_mask : Get(policy).problem.is_cont_mask[i]
    /\ IsSoEnsemble(Get(Get(policy).out)[1])

\* C6: when the effective n_parallel is 1, get_default_infill returns batch
\* size 1 with the {MPoI, MPoI-euclidean} ensemble if n_obj > 1, the mean
\* estimate if n_obj = 1 and all variables are continuous, and the {EI, LCB,
\* PoI} ensemble if n_obj = 1 and some variable is not continuous; a passed
\* n_parallel decides the batch size whatever the problem declares.
C6_SerialAndPrecedence ==
    (~IsNone(policy) /\ Returned(Get(policy))) =>
        LET call == Get(policy)
            out == Get(call.out)
            mask == call.problem.is_cont_mask
        IN /\ ParallelOf(call) = 1 =>
                 /\ out[2] = 1
                 /\ IF call.problem.n_obj > 1 THEN IsMoEnsemble(out[1])
                    ELSE IF \A i \in DOMAIN mask : mask[i]
                         THEN out[1] = FunctionEstimateConstrainedInfill(None)
                    ELSE IsSoEnsemble(out[1])
           /\ call.n_parallel # None => out[2] = call.n_parallel[1]

\* n_parallel = 1 was passed for a continuous single-objective problem that
\* declares a batch capacity of 3
C6_Witness ==
    /\ ~IsNone(policy)
    /\ Returned(Get(policy))
    /\ Get(policy).n_parallel = Some(1)
    /\ Get(policy).problem.n_batch_evaluate = Some(3)
    /\ Get(policy).problem.n_obj = 1
    /\ Get(Get(policy).out) = <<FunctionEstimateConstrainedInfill(None), 1>>

\* ------------------------------------------------------------------------
\* Properties of the selection

Selected == ~IsNone(selection) /\ ~IsNone(Get(selection).out)

\* the positions of a population's optimum set: the feasible individuals that
\* no feasible individual dominates, and when none is feasible the individuals
\* with the least constraint violation
OptimumSet(population) ==
    LET all == 1..Len(population)
        feas == {i \in all : IsFeasible(population[i])}
    IN IF feas # {}
       THEN {i \in feas : \A k \in feas : ~Dominates(population[k].F, population[i].F)}
       ELSE {i \in all : \A k \in all : population[i].CV <= population[k].CV}

\* no position of the population is selected twice
NoRepeat(out) == \A i, k \in 1..Len(out) : out[i] = out[k] => i = k

EnsembleSelected == Selected /\ Get(selection).self.kind = "EnsembleInfill"

\* the ensemble's batch holds at most n_infill candidates
C9_WithinBudget ==
    EnsembleSelected => Len(Get(Get(selection).out)) <= Get(selection).n_infill

\* every candidate of the ensemble's batch is in the optimum set
C9_FromOptimum ==
    EnsembleSelected =>
        \A i \in 1..Len(Get(Get(selection).out)) :
            Get(Get(selection).out)[i] \in OptimumSet(Get(selection).population)

\* no candidate is in the ensemble's batch twice
C9_NoCandidateTwice == EnsembleSelected => NoRepeat(Get(Get(selection).out))

\* C9: the batch EnsembleInfill.select_infill_solutions returns holds, for
\* every population and every n_infill >= 1, at most n_infill candidates, each
\* a member of the population's optimum (non-dominated) set, and no candidate
\* more than once.
C9_BatchNonRedundant ==
    /\ C9_WithinBudget
    /\ C9_FromOptimum
    /\ C9_NoCandidateTwice

DefaultSelected == Selected /\ Get(selection).self.kind # "EnsembleInfill"

\* the selection is one of rank-and-crowding survival: positions of the
\* population, none twice; an infeasible individual only when every feasible
\* one is selected; no selected feasible individual dominated by a feasible
\* one left out; no selected infeasible individual violating the constraints
\* more than an infeasible one left out
ByRankAndCrowding(population, out) ==
    LET all == 1..Len(population)
        sel == {out[i] : i \in 1..Len(out)}
        feas == {i \in all : IsFeasible(population[i])}
    IN /\ sel \subseteq all
       /\ NoRepeat(out)
       /\ sel \subseteq feas \/ feas \subseteq sel
       /\ \A i \in sel \cap feas : \A k \in feas \ sel :
              ~Dominates(population[k].F, population[i].F)
       /\ \A i \in sel \ feas : \A k \in (all \ feas) \ sel :
              population[i].CV <= population[k].CV

\* with one acquisition objective the selection is a single best candidate:
\* a feasible one if any exists, otherwise the least infeasible one
C10_SingleBest ==
    (DefaultSelected /\ Get(selection).self.n_f_ic = Some(1)) =>
        /\ Len(Get(Get(selection).out)) = 1
        /\ Get(Get(selection).out)[1] \in OptimumSet(Get(selection).population)

\* C10 as stated: SurrogateInfill.select_infill_solutions returns, with one
\* acquisition objective, a single best candidate (feasible if any exists,
\* otherwise the least infeasible) whatever n_infill is, and with several
\* acquisition objectives exactly n_infill candidates of the population chosen
\* by rank-and-crowding survival.
C10_ExactlyNInfill ==
    /\ C10_SingleBest
    /\ (DefaultSelected /\ Get(selection).self.n_f_ic # Some(1)) =>
          /\ Len(Get(Get(selection).out)) = Get(selection).n_infill
          /\ ByRankAndCrowding(Get(selection).population, Get(Get(selection).out))

\* C10, amended: SurrogateInfill.select_infill_solutions returns, with one
\* acquisition objective, a single best candidate (feasible if any exists,
\* otherwise the least infeasible) whatever n_infill is, and with several
\* acquisition objectives the candidates rank-and-crowding survival chooses:
\* n_infill of them, or the whole population when it holds fewer than n_infill.
C10_AtMostNInfill ==
    /\ C10_SingleBest
    /\ (DefaultSelected /\ Get(selection).self.n_f_ic # Some(1)) =>
          /\ Len(Get(Get(selection).out)) =
                Min2(Get(selection).n_infill, Len(Get(selection).population))
          /\ ByRankAndCrowding(Get(selection).population, Get(Get(selection).out))

\* a criterion with two acquisition objectives was asked for three of a
\* population of two and returned the two
C10_Witness ==
    /\ DefaultSelected
    /\ Get(selection).self.n_f_ic = Some(2)
    /\ Get(selection).n_infill = 3
    /\ Len(Get(selection).population) = 2
    /\ Len(Get(Get(selection).out)) = 2

\* ------------------------------------------------------------------------
\* Properties of the prediction adapter

AllNaN(m) == \A i \in 1..Len(m) : \A j \in 1..Len(m[i]) : IsNaN(m[i][j])

\* m has k rows of n columns
HasShape(m, k, n) == Len(m) = k /\ \A i \in 1..k : Len(m[i]) = n

\* the last call was predict or predict_variance on a bound criterion and the
\* surrogate raised FloatingPointError in it
SurrogateRaisedFpe ==
    /\ initialized
    /\ \/ ret.op = "predict" /\ ret.fault = "predict_fpe"
       \/ ret.op = "predict_variance" /\ ret.fault \in {"variance_fpe", "variance_fpe_last"}

\* C11: when the surrogate raises a floating-point error in predict, or at
\* any row in predict_variance, the adapter raises nothing and returns an
\* objective block of k rows and n_obj columns and a constraint block of k
\* rows and n_constr columns, both NaN in every entry.
C11_FpeGivesAllNaN ==
    SurrogateRaisedFpe =>
        /\ ret.exc = ""
        /\ HasShape(ret.val[1], Len(ret.x), Get(criterion.problem).n_obj)
        /\ HasShape(ret.val[2], Len(ret.x), Get(criterion.problem).n_constr)
        /\ AllNaN(ret.val[1])
        /\ AllNaN(ret.val[2])

\* predict_variance was called with two rows on a criterion bound to a
\* constrained problem and the surrogate raised at the second row
C11_Witness ==
    /\ SurrogateRaisedFpe
    /\ ret.op = "predict_variance"
    /\ ret.fault = "variance_fpe_last"
    /\ Len(ret.x) = 2
    /\ Get(criterion.problem).n_constr = 2
    /\ ret.exc = ""
    /\ AllNaN(ret.val[2])

\* ------------------------------------------------------------------------
\* Properties of the adapter calls of evaluate

Evaluated == ret.op = "evaluate"

\* the sub-criteria's evaluate_f results on the predictions p and v of the
\* ensemble's own predict and predict_variance, side by side
StackedOnSamePredictions(self, x, fault) ==
    Let(predict(self, x, fault), LAMBDA p :
    Let(predict_variance(self, x, fault), LAMBDA v :
        ColumnStack([i \in 1..Len(Get(self.infills)) |->
                        evaluate_f(Get(self.infills)[i], p.val[1], v.val[1]).val])))

\* what the criteria declare, what the plain direct estimate does, and what an
\* ensemble that returns has handed to its sub-criteria
C12_DeclaredAndShared ==
    Evaluated =>
        /\ ret.needs_variance = (criterion.kind # "FunctionEstimateInfill")
        /\ criterion.kind = "FunctionEstimateInfill" =>
              \A i \in 1..Len(ret.queries) : ret.queries[i] # "predict_variance"
        /\ (criterion.kind = "EnsembleInfill" /\ ret.exc = "") =>
              Get(ret.val)[1] = StackedOnSamePredictions(criterion, ret.x, ret.fault)

FeasibilityProbability(g, g_var) ==
    IF g_var = 0 THEN (IF g <= 0 THEN Sc ELSE 0)
    ELSE Cdf(FDiv(0 - g, FSqrt(g_var)))

PofEvaluated == ret.op = "ProbabilityOfFeasibility.evaluate" /\ ~IsNone(ret.out)

\* C13: for every predicted constraint mean and variance, variance 0
\* included, each entry ProbabilityOfFeasibility.evaluate returns is <= 0
\* exactly when that constraint's probability of feasibility is >= min_pof,
\* min_pof being 0.5 when none is given.
C13_SatisfiedIffProbable ==
    PofEvaluated =>
        /\ HasShape(Get(ret.out), Len(ret.g), 1)
        /\ \A i \in 1..Len(ret.g) :
              FLe(Get(ret.out)[i][1], 0) <=>
                 FGe(FeasibilityProbability(ret.g[i][1], ret.g_var[i][1]), ret.self.min_pof)
        /\ \A min_pof \in MinPofArgs :
              ret.self = ProbabilityOfFeasibility(min_pof) =>
                 ret.self.min_pof = IF min_pof = None THEN Sc \div 2 ELSE Get(min_pof)

\* a strategy with the default min_pof was given a constraint predicted at
\* exactly 0 with variance 0 and one predicted violated with variance 0
C13_Witness ==
    /\ PofEvaluated
    /\ ret.self = ProbabilityOfFeasibility(None)
    /\ ret.g = << <<0>>, <<Sc>> >>
    /\ ret.g_var = << <<0>>, <<0>> >>
    /\ FLe(Get(ret.out)[1][1], 0)
    /\ ~FLe(Get(ret.out)[2][1], 0)

\* ------------------------------------------------------------------------
\* Properties of the expected improvement

EiEvaluated == ret.op = "_evaluate_f_ei" /\ ~IsNone(ret.out)

\* the Pareto front of the training points has the single value 1 in
\* objective j: the nadir point, set to 1 where it equals the ideal point,
\* still equals the ideal point there
FrontIsOneIn(f_current, j) ==
    \A r \in 1..Len(f_current) :
        (\A q \in 1..Len(f_current) : ~Dominates(f_current[q], f_current[r]))
            => f_current[r][j] = Sc

\* C14 as stated: for every training set, every predicted mean and every
\* non-negative predicted variance, each entry of the Expected Improvement
\* criterion's output lies in [0, 1].
C14_WithinUnitInterval ==
    EiEvaluated =>
        /\ Get(ret.out).exc = ""
        /\ \A j \in 1..Len(ret.f[1]) :
              FLe(0, Get(ret.out).val[1][j]) /\ FLe(Get(ret.out).val[1][j], Sc)

\* C14, amended: for every training set, every predicted mean and every
\* non-negative predicted variance, each entry of the Expected Improvement
\* criterion's output is a number that is at most 1, except that it is NaN
\* exactly in the objectives in which the Pareto front of the training set
\* has the single value 1.
C14_AtMostOneOrNaN ==
    EiEvaluated =>
        /\ Get(ret.out).exc = ""
        /\ HasShape(Get(ret.out).val, 1, Len(ret.f[1]))
        /\ \A j \in 1..Len(ret.f[1]) :
              IF FrontIsOneIn(ret.f_current, j)
              THEN IsNaN(Get(ret.out).val[1][j])
              ELSE IsNum(Get(ret.out).val[1][j]) /\ Get(ret.out).val[1][j] <= Sc

\* with the training front at 0, a mean of -2 with variance 1 gives an
\* expected improvement above 1, so an output below 0
C14_Witness ==
    /\ EiEvaluated
    /\ ret.f_current = << <<0>>, <<Sc>> >>
    /\ ret.f = << <<0 - 2 * Sc>> >>
    /\ ret.f_var = << <<Sc>> >>
    /\ IsNum(Get(ret.out).val[1][1])
    /\ Get(ret.out).val[1][1] < 0

\* ------------------------------------------------------------------------
\* Properties of the lower confidence bound

LcbEvaluated == ret.op = "LowerConfidenceBoundInfill.evaluate_f" /\ ~IsNone(ret.out)

\* the square roots of the variances, to three decimals
LcbRoots == {0, 1414, 2 * Sc}

\* the square root of a variance: the number of three decimals whose square
\* comes closest to it from below
RootOf(v) == CHOOSE r \in LcbRoots : r * r <= v * Sc /\ (r + 1) * (r + 1) > v * Sc

\* C15: LowerConfidenceBoundInfill's value for each objective of each query
\* point is mean - alpha * sqrt(variance), alpha being 2 when not given,
\* whatever the training set is; mean 1, variance 4 and alpha 2 give -3.
C15_MeanMinusAlphaSigma ==
    LcbEvaluated =>
        LET a == IF ret.alpha = None THEN 2 * Sc ELSE Get(ret.alpha)
        IN /\ Get(ret.out).exc = ""
           /\ HasShape(Get(ret.out).val, Len(ret.f), Len(ret.f[1]))
           /\ \A i \in 1..Len(ret.f) : \A j \in 1..Len(ret.f[i]) :
                 /\ Get(ret.out).val[i][j] =
                       ret.f[i][j] - Rnd(a * RootOf(ret.f_var[i][j]), Sc)
                 /\ (a = 2 * Sc /\ ret.f[i][j] = Sc /\ ret.f_var[i][j] = 4 * Sc) =>
                       Get(ret.out).val[i][j] = 0 - 3 * Sc

\* a criterion constructed without alpha and holding a training set was
\* given mean 1 and variance 4 and answered -3
C15_Witness ==
    /\ LcbEvaluated
    /\ ret.self.alpha = 2 * Sc
    /\ ~IsNone(ret.self.y_train)
    /\ ret.f = << <<Sc>> >>
    /\ ret.f_var = << <<4 * Sc>> >>
    /\ Get(ret.out).val = << <<0 - 3 * Sc>> >>

\* ------------------------------------------------------------------------
\* Properties of repeated evaluate calls

\* the criterion as its constructor left it, bound as the criterion is bound
\* now and given the training set t once
FreshlyTrained(t) ==
    set_samples(initialize(constructed, Get(criterion.problem),
                           Get(criterion.surrogate_model), Get(criterion.normalization)),
                t.x_train, t.y_train).val

\* two evaluate calls on the same x with the same answers of the surrogate
\* ended the same way
SameResultTwice ==
    \A i \in 1..Len(calls) : \A j \in 1..Len(calls) :
        (calls[i].x = calls[j].x /\ calls[i].fault = calls[j].fault) =>
            calls[i].exc = calls[j].exc /\ calls[i].val = calls[j].val

\* the evaluate call just made ended as it ends on a fresh criterion with the
\* same binding and training set
SameAsFresh ==
    ret.op = "evaluate" =>
        \E c \in {calls[Len(calls)]} :
            \E r \in {evaluate(FreshlyTrained(Get(ret.train)), c.x, c.fault, 1)} :
                c.exc = r.exc /\ c.val = r.val

\* C16: after set_samples (called once or twice with the same training set)
\* and with the surrogate unchanged, evaluate calls on the same x return the
\* same (f_infill, g_infill); what a call returns is what a freshly
\* constructed criterion returns for the same binding, training set, x and
\* surrogate answers, whatever calls of evaluate, set_samples or
\* reset_infill_log came before and whatever the log holds.
C16_ResultIndependentOfHistory ==
    ~IsNone(ret.train) => SameResultTwice /\ SameAsFresh

\* set_samples was called twice with one training set, then evaluate twice
\* on the same x, with a reset_infill_log call in between
C16_Witness ==
    /\ ret.op = "evaluate" /\ ret.exc = ""
    /\ ~IsNone(ret.train) /\ ret.twice
    /\ criterion.kind = "MinimumPoIInfill"
    /\ Len(calls) = 2
    /\ calls[1].x = calls[2].x /\ calls[1].fault = "none" /\ calls[2].fault = "none"
    /\ calls[1].exc = "" /\ calls[1].val = calls[2].val
    /\ Len(criterion.f_infill_log) = 1

\* ------------------------------------------------------------------------
\* Properties of evaluate on a matrix of the wrong width

\* the query matrix of the last evaluate call has another column count than
\* the bound problem has variables
WrongWidth(c, x) == ~IsNone(c.problem) /\ Cols(x) # Get(c.problem).n_var

LiveCriterionUnchanged == ret'.op = "__getstate__" => criterion' = criterion

\* C18 as stated: the state holds neither the surrogate model handle nor the
\* normalization handle, and producing it leaves the criterion unchanged.
C18_NeitherHandleInState ==
    [][/\ LiveCriterionUnchanged
       /\ ret'.op = "__getstate__" =>
             /\ Get(ret'.val).surrogate_model = None
             /\ Get(ret'.val).normalization = None]_vars

\* C18: the state __getstate__ returns has the attributes of the criterion,
\* the surrogate model handle replaced by None and every other attribute,
\* the normalization handle and the sub-criteria of an ensemble included, as
\* the criterion holds it; producing it leaves the criterion unchanged.
C18_OnlySurrogateLeftOut ==
    [][/\ LiveCriterionUnchanged
       /\ ret'.op = "__getstate__" =>
             /\ DOMAIN Get(ret'.val) = DOMAIN criterion
             /\ Get(ret'.val).surrogate_model = None
             /\ \A key \in DOMAIN criterion \ {"surrogate_model"} :
                   Get(ret'.val)[key] = criterion[key]]_vars

\* the state of a bound, trained criterion with a log: it comes without the
\* surrogate model and with the normalization, and the criterion still holds
\* both
C18_Witness ==
    /\ ret.op = "__getstate__"
    /\ Get(ret.val).surrogate_model = None
    /\ ~IsNone(Get(ret.val).normalization)
    /\ ~IsNone(criterion.surrogate_model) /\ ~IsNone(criterion.normalization)
    /\ ~IsNone(criterion.y_train)
    /\ Len(criterion.f_infill_log) > 0
    /\ Get(ret.val).f_infill_log = criterion.f_infill_log

\* ------------------------------------------------------------------------
\* Properties of the optimization interface

\* n, n_failed and n_tried of an interface
Counters(self) == <<InterfaceN(self), InterfaceNFailed(self), InterfaceNTried(self)>>

IsSubFront(seq, front) ==
    \E pos \in [1..Len(seq) -> 1..Len(front)] :
        /\ \A i \in 1..Len(seq) : seq[i] = front[pos[i]]
        /\ \A i \in 1..(Len(seq) - 1) : pos[i] < pos[i + 1]

\* the step removes one point of the front as it stands, one whose crowding
\* distance, computed on that front, no other point's crowding distance is
\* below
RemovesOneMostCrowded(before, after) ==
    \E i_remove \in 1..Len(before.opt_pop) :
        /\ after.opt_pop = RemoveAt(before.opt_pop, i_remove)
        /\ after.removed = before.removed + 1
        /\ Let(calc_crowding_distance([i \in 1..Len(before.opt_pop) |->
                                          before.population[before.opt_pop[i]].F]),
               LAMBDA crowding :
               \A k \in 1..Len(before.opt_pop) : crowding[i_remove] <= crowding[k])

\* what the call has returned is right for its branch
ReturnedRight(call) ==
    /\ Len(call.front) <= call.n_infill => Get(call.out) = call.front
    /\ InLoop(call) =>
          /\ call.removed = Len(call.front) - call.n_infill
          /\ Len(Get(call.out)) = call.n_infill
          /\ IsSubFront(Get(call.out), call.front)

\* C20: a front of at most n_infill points is returned whole; in the crowding
\* branch every pass removes one point, one of those with the minimum
\* crowding distance on the front as it stands, and the call returns, after
\* exactly |front| - n_infill passes, n_infill points of the original front.
C20_EliminatesToNInfill ==
    /\ [](Selected => ReturnedRight(Get(selection)))
    /\ [][Get(selection').opt_pop # Get(selection).opt_pop =>
             /\ InLoop(Get(selection))
             /\ RemovesOneMostCrowded(Get(selection), Get(selection'))]_vars
    /\ <>Selected

\* the loop ended after two passes, the second of which had two points to
\* choose from
C20_Witness ==
    /\ Selected
    /\ InLoop(Get(selection))
    /\ Get(selection).removed = 2
    /\ Len(Get(Get(selection).out)) = Get(selection).n_infill
    /\ \E i \in 1..Len(Get(selection).front) :
          Cardinality(MinCrowded(Get(selection).population,
                                 RemoveAt(Get(selection).front, i))) > 1

\* ------------------------------------------------------------------------
\* Properties of the branch taken by EnsembleInfill.select_infill_solutions

\* the call returned what np.random.choice drew: the front had more points
\* than asked for and no pass of the loop was made
TookRandomBranch(call) ==
    /\ ~IsNone(call.out)
    /\ Len(call.front) > call.n_infill
    /\ call.removed = 0

\* the call returned from the loop
TookCrowdingBranch(call) ==
    /\ ~IsNone(call.out)
    /\ Len(call.front) > call.n_infill
    /\ call.removed > 0

\* out holds n_infill entries, each a point of the front
DrawnFromFront(call) ==
    /\ Len(Get(call.out)) = call.n_infill
    /\ \A i \in 1..call.n_infill : \E k \in 1..Len(call.front) : Get(call.out)[i] = call.front[k]

\* the acquisition objectives of the sub-criteria, added up
ObjectivesOfSubCriteria(self) == SumSeq([i \in 1..Len(Get(self.infills)) |->
                                            get_n_infill_objectives(Get(self.infills)[i]).val])

\* C21 as stated: with a front larger than n_infill, the random branch is
\* taken exactly when n_infill is at most the number of sub-criteria, and
\* returns n_infill points of the front; otherwise the crowding branch is taken.
C21_RandomIffAtMostSubCriteria ==
    (Selected /\ Len(Get(selection).front) > Get(selection).n_infill) =>
        /\ TookRandomBranch(Get(selection)) <=>
              Get(selection).n_infill <= Len(Get(Get(selection).self.infills))
        /\ TookCrowdingBranch(Get(selection)) <=>
              Get(selection).n_infill > Len(Get(Get(selection).self.infills))
        /\ TookRandomBranch(Get(selection)) => DrawnFromFront(Get(selection))

\* C21: with a front larger than n_infill, the random branch is taken exactly
\* when n_infill is at most the number of acquisition objectives of the
\* ensemble, the sum over its sub-criteria, and returns n_infill entries each
\* of which is a point of the front; for any larger n_infill the crowding
\* branch is taken, and no pass of the loop is made otherwise.
C21_RandomIffAtMostObjectives ==
    /\ []((Selected /\ Len(Get(selection).front) > Get(selection).n_infill) =>
            /\ TookRandomBranch(Get(selection)) <=>
                  Get(selection).n_infill <= ObjectivesOfSubCriteria(Get(selection).self)
            /\ TookCrowdingBranch(Get(selection)) <=>
                  Get(selection).n_infill > ObjectivesOfSubCriteria(Get(selection).self)
            /\ TookRandomBranch(Get(selection)) => DrawnFromFront(Get(selection)))
    /\ [][Get(selection').removed # Get(selection).removed =>
             /\ Len(Get(selection).front) > Get(selection).n_infill
             /\ Get(selection).n_infill > ObjectivesOfSubCriteria(Get(selection).self)]_vars

\* an ensemble of two sub-criteria and four acquisition objectives was asked
\* for three points of a larger front and drew them at random
C21_Witness ==
    /\ Selected
    /\ TookRandomBranch(Get(selection))
    /\ Len(Get(Get(selection).self.infills)) = 2
    /\ ObjectivesOfSubCriteria(Get(selection).self) = 4
    /\ Get(selection).n_infill = 3

\* ------------------------------------------------------------------------
\* Properties of the Pareto front MinimumPoIInfill keeps

\* the non-dominated rows of the objective columns of the training outputs,
\* the objectives being those of the problem the criterion is bound to
FrontOfTrainingSet(c) ==
    get_pareto_front(SliceCols(Get(c.y_train), 0, Get(c.problem).n_obj))

\* C22: for a MinimumPoIInfill, once set_samples has been called, after any
\* sequence of initialize and set_samples calls the Pareto front the
\* criterion keeps is the non-dominated subset of the objective columns of
\* the current y_train, with the n_obj of the problem bound at present.
C22_FrontIsOfCurrentTrainingSet ==
    (~IsNone(criterion.f_pareto) /\ ~IsNone(criterion.problem)) =>
        criterion.f_pareto = Some(FrontOfTrainingSet(criterion))

\* ------------------------------------------------------------------------
\* Properties of evaluate calls that fail

\* C23: an evaluate call that fails with an error leaves f_infill_log,
\* g_infill_log, n_eval_infill and time_eval_infill exactly as they were
\* before the call.
C23_FailedEvaluateLeavesLog ==
    [][(ret'.op = "evaluate" /\ ret'.exc # "") =>
           InfillLog(criterion') = InfillLog(criterion)]_vars

\* an evaluate call failed on an error of the surrogate, on a criterion
\* that had logged a call before
C23_Witness ==
    /\ ret.op = "evaluate"
    /\ ret.exc = "SurrogateError"
    /\ Len(criterion.f_infill_log) >= 1
    /\ criterion.time_eval_infill > 0
    /\ criterion.n_eval_infill > 0

\* ------------------------------------------------------------------------
\* Properties of the variance queries

\* the last call was predict_variance on a bound criterion and it returned
VarianceReturned == ret.op = "predict_variance" /\ initialized /\ ret.exc = ""

\* query i carries row i of the batch, normalized, and nothing else
CarriesRow(i) == ret.queries[i] = forward(Get(criterion.normalization), <<ret.x[i]>>)

\* row i of both blocks of the result is what the surrogate answers to query i
AnswersQuery(i) ==
    Let(_split_f_g(criterion, predict_variances(Get(criterion.surrogate_model), ret.queries[i])),
        LAMBDA answer :
        /\ ret.val[1][i] = answer[1][1]
        /\ ret.val[2][i] = answer[2][1])

\* one query per row, in row order, and every row answered by its own query
OneQueryPerRow ==
    /\ Len(ret.queries) = Len(ret.x)
    /\ \A i \in 1..Len(ret.x) : CarriesRow(i) /\ AnswersQuery(i)

\* C24 as stated: predict_variance on k rows issues exactly k variance
\* queries, one per row in row order, each carrying one normalized row, and
\* row i of the result is the answer to query i alone.
C24_OneQueryPerRow ==
    VarianceReturned => OneQueryPerRow

\* C24: while the surrogate raises no floating-point error, predict_variance
\* on k rows issues exactly k variance queries, one per row in row order,
\* each carrying one normalized row, and row i of the result is the answer to
\* query i alone; when the surrogate raises a floating-point error at row r,
\* the queries are those of rows 1 to r and every row of the result is NaN.
C24_OneQueryPerRowUntilFpe ==
    VarianceReturned =>
        /\ FailRow(ret.fault, Len(ret.x)) = 0 => OneQueryPerRow
        /\ FailRow(ret.fault, Len(ret.x)) > 0 =>
              /\ Len(ret.queries) = FailRow(ret.fault, Len(ret.x))
              /\ \A i \in 1..Len(ret.queries) : CarriesRow(i)
              /\ AllNaN(ret.val[1]) /\ AllNaN(ret.val[2])

\* three rows were asked about in three queries and two rows of the result
\* differ
C24_Witness ==
    /\ VarianceReturned
    /\ ret.fault = "none"
    /\ Len(ret.x) = 3
    /\ Len(ret.queries) = 3
    /\ ret.val[1][1] # ret.val[1][2]
    /\ ret.val[2][2] # ret.val[2][3]

\* ------------------------------------------------------------------------
\* Properties of the expected improvement at zero and at positive variance

\* the improvement deltas of the objectives as _evaluate_f_ei forms them: the
\* nearest point of the normalized front minus the normalized mean
EiDeltas(f_current, f) ==
    Let(get_pareto_front(f_current), LAMBDA f_pareto :
    Let(NadirPoint(f_pareto), LAMBDA nadir_point :
    Let(IdealPoint(f_pareto), LAMBDA ideal_point :
    Let([r \in 1..Len(f_pareto) |-> NormalizeRow(f_pareto[r], nadir_point, ideal_point)],
        LAMBDA f_pareto_norm :
    Let(_normalize_f_var(<<f>>, <<f>>, nadir_point, ideal_point), LAMBDA nrm :
    Let(f_pareto_norm[ArgMin(SquaredDistances(f_pareto_norm, nrm[1][1]))], LAMBDA f_par_min :
        [j \in 1..Len(f) |-> FSub(BAt(f_par_min, j), BAt(nrm[1][1], j))]))))))

\* C25 as stated: where the predicted standard deviation of an objective is
\* 0, the raw EI is 1 if the improvement delta is above 0 and 0 otherwise, so
\* the reported value is 0 respectively 1, and never NaN.
C25_ZeroSigmaGivesOneOrZero ==
    EiEvaluated =>
        \E delta \in {EiDeltas(ret.f_current, ret.f[1])} :
           \A j \in 1..Len(ret.f[1]) :
               ret.f_var[1][j] = 0 =>
                   Get(ret.out).val[1][j] = (IF FGt(delta[j], 0) THEN 0 ELSE Sc)

\* C25: where the predicted standard deviation of an objective is 0, the raw
\* EI is the improvement delta itself if delta is above 0 and 0 otherwise, so
\* the reported value is 1 - delta respectively 1; it is NaN where delta is
\* NaN, which is in the objectives in which the Pareto front of the training
\* set has the single value 1.
C25_ZeroSigmaGivesDeltaOrZero ==
    EiEvaluated =>
        \E delta \in {EiDeltas(ret.f_current, ret.f[1])} :
           \A j \in 1..Len(ret.f[1]) :
               ret.f_var[1][j] = 0 =>
                   /\ IsNaN(delta[j]) <=> FrontIsOneIn(ret.f_current, j)
                   /\ Get(ret.out).val[1][j] =
                         (IF IsNaN(delta[j]) THEN NaN
                          ELSE IF delta[j] > 0 THEN FSub(Sc, delta[j])
                          ELSE Sc)

\* a point predicted without variance lies an improvement of less than 1
\* before the front: what is reported is neither 0 nor 1
C25_Witness ==
    /\ EiEvaluated
    /\ \E delta \in {EiDeltas(ret.f_current, ret.f[1])} :
          \E j \in 1..Len(ret.f[1]) :
             /\ ret.f_var[1][j] = 0
             /\ FGt(delta[j], 0)
             /\ FLt(delta[j], Sc)
             /\ Get(ret.out).val[1][j] = Sc - delta[j]

\* the denominator the front is normalized with in objective j: nadir minus
\* ideal, and 1 where the two are equal
UnitRange(f_pareto, j) ==
    IF ColMax(f_pareto, j) = ColMin(f_pareto, j) THEN Sc
    ELSE ColMax(f_pareto, j) - ColMin(f_pareto, j)

\* a row normalized to ideal 0 / nadir 1
ToUnit(f_pareto, row) ==
    [j \in 1..Len(row) |-> FDiv(FSub(row[j], ColMin(f_pareto, j)), UnitRange(f_pareto, j))]

\* delta * Phi(delta / sigma) + sigma * phi(delta / sigma)
ClassicEi(delta, sigma) ==
    FAdd(FMul(delta, Cdf(FDiv(delta, sigma))), FMul(sigma, Pdf(FDiv(delta, sigma))))

\* the classic expected improvement of objective j against the nearest point
\* of the front normalized to ideal 0 / nadir 1
ClassicEiOf(f_current, f, f_var, j) ==
    Let(get_pareto_front(f_current), LAMBDA f_pareto :
    Let([r \in 1..Len(f_pareto) |-> ToUnit(f_pareto, f_pareto[r])], LAMBDA front :
    Let(ToUnit(f_pareto, f), LAMBDA f_norm :
        ClassicEi(FSub(front[ArgMin(SquaredDistances(front, f_norm))][j], f_norm[j]),
                  FSqrt(FDiv(f_var[j], FMul(UnitRange(f_pareto, j),
                                            UnitRange(f_pareto, j))))))))

\* C26: for a query point with positive predicted variance, the raw EI of
\* each objective is delta * Phi(delta / sigma) + sigma * phi(delta / sigma),
\* delta the value of the nearest point of the front minus the predicted
\* mean, sigma the square root of the variance, all normalized to ideal 0 /
\* nadir 1 with a denominator of 1 where nadir equals ideal; the criterion
\* reports 1 minus the raw EI clipped at 0.
C26_ClassicEiAtPositiveVariance ==
    EiEvaluated =>
        \A j \in 1..Len(ret.f[1]) :
            (\A k \in 1..Len(ret.f[1]) : ret.f_var[1][k] > 0) =>
                Let(ClassicEiOf(ret.f_current, ret.f[1], ret.f_var[1], j), LAMBDA ei :
                    Get(ret.out).val[1][j] = FSub(Sc, IF FLt(ei, 0) THEN 0 ELSE ei))

\* ------------------------------------------------------------------------
\* Properties of the minimum probability of improvement

MpoiEvaluated == ret.op = "get_mpoi_f" /\ ~IsNone(ret.out)

\* the probability that the predicted point dominates front point r: 1 minus
\* the product over the objectives of the probability of not being better
DominationProbability(f_pareto, f, f_var, r) ==
    FSub(Sc, FProdSeq([j \in 1..Len(f) |->
                          Cdf(FDiv(FSub(f[j], f_pareto[r][j]), FSqrt(f_var[j])))]))

\* the least domination probability over the points of the front
MinDominationProbability(f_pareto, f, f_var) ==
    NanMin([r \in 1..Len(f_pareto) |-> DominationProbability(f_pareto, f, f_var, r)])

\* the least Euclidean distance from the predicted point to the front
MinDistance(f_pareto, f) ==
    NanMin([r \in 1..Len(f_pareto) |->
               FSqrt(FSumSeq([j \in 1..Len(f) |->
                                 FMul(FSub(f[j], f_pareto[r][j]), FSub(f[j], f_pareto[r][j]))]))])

JenattonEvaluated == ret.op = "_arch_evaluate" /\ ~IsNone(ret.f_out)

\* the two design vectors have the same activeness pattern and agree on
\* every active variable
SameActiveDesign ==
    /\ Get(ret.is_active)[1] = Get(ret.is_active)[2]
    /\ \A i \in 1..9 : Get(ret.is_active)[1][i] => ret.x[1][i] = ret.x[2][i]

\* C28: two design vectors of the Jenatton problem that have the same
\* activeness pattern after _correct_x and agree on every active variable
\* receive the same objective value from _arch_evaluate.
C28_ObjectiveOfActiveVariablesOnly ==
    (JenattonEvaluated /\ SameActiveDesign) => Get(ret.f_out)[1] = Get(ret.f_out)[2]

\* ------------------------------------------------------------------------
\* Properties of the guidance, navigation and control problem

GncConstructed == ret.op = "_correct_x"

\* the variables that are active in every architecture: the numbers of
\* instances, the type of the first instance of each object type, and the
\* connection between the first instances of each pair
FirstInstanceVar(des_var) ==
    \/ des_var.of = "nr"
    \/ des_var.of = "type" /\ des_var.i = 0
    \/ des_var.of = "conn" /\ des_var.i = 0 /\ des_var.j = 0

\* C29: with choose_nr, _is_conditionally_active marks as always active
\* (False) exactly the variables of the numbers of instances, of the type of
\* the first instance of each object type and of the connection between the
\* first instances of each adjacent pair, at the positions where
\* _get_des_vars places them, and every other variable as conditionally
\* active (True); without choose_nr it marks every variable always active.
C29_AlwaysActiveAreFirstInstances ==
    GncConstructed =>
        /\ Len(ret.is_cond_act) = Len(ret.des_vars)
        /\ \A p \in 1..Len(ret.des_vars) :
              ret.is_cond_act[p] = (ret.self.choose_nr /\ ~FirstInstanceVar(ret.des_vars[p]))

GncCorrected == ret.op = "_correct_x" /\ ~IsNone(ret.out)

\* instance i of object type k is instantiated in the design vector
Instantiated(k, i) == i < n_inst(ret.self, ret.x)[k + 1]

\* the connection variables between source i of object type k and the
\* instantiated targets of the next type, and between the instantiated
\* sources of type k and target j
ToInstantiatedTargets(k, i) ==
    {p \in 1..Len(ret.des_vars) :
        /\ ret.des_vars[p].of = "conn" /\ ret.des_vars[p].obj = k
        /\ ret.des_vars[p].i = i /\ Instantiated(k + 1, ret.des_vars[p].j)}
FromInstantiatedSources(k, j) ==
    {p \in 1..Len(ret.des_vars) :
        /\ ret.des_vars[p].of = "conn" /\ ret.des_vars[p].obj = k
        /\ ret.des_vars[p].j = j /\ Instantiated(k, ret.des_vars[p].i)}

\* every instantiated source is connected to an instantiated target and
\* every instantiated target to an instantiated source
AllConnected ==
    \A k \in 0..(n_obj_types(ret.self) - 2), i \in 0..(ret.self.n_max - 1) :
        /\ Instantiated(k, i) =>
              \E p \in ToInstantiatedTargets(k, i) : Get(ret.out).x[p] = 1
        /\ Instantiated(k + 1, i) =>
              \E p \in FromInstantiatedSources(k, i) : Get(ret.out).x[p] = 1

ConnectionsKept ==
    \A p \in 1..Len(ret.des_vars) :
        (ret.des_vars[p].of = "conn" /\ ret.x[p] = 1) => Get(ret.out).x[p] = 1

\* variable p belongs to an object that is not instantiated
OfNonInstantiated(p) ==
    \/ ret.des_vars[p].of = "type" /\ ~Instantiated(ret.des_vars[p].obj, ret.des_vars[p].i)
    \/ /\ ret.des_vars[p].of = "conn"
       /\ \/ ~Instantiated(ret.des_vars[p].obj, ret.des_vars[p].i)
          \/ ~Instantiated(ret.des_vars[p].obj + 1, ret.des_vars[p].j)

NonInstantiatedInactive ==
    \A p \in 1..Len(ret.des_vars) : OfNonInstantiated(p) => ~Get(ret.out).is_active[p]

TypesNonDecreasing ==
    \A p \in 1..Len(ret.des_vars), q \in 1..Len(ret.des_vars) :
        (/\ ret.des_vars[p].of = "type" /\ ret.des_vars[q].of = "type"
         /\ ret.des_vars[p].obj = ret.des_vars[q].obj
         /\ ret.des_vars[p].i < ret.des_vars[q].i
         /\ Instantiated(ret.des_vars[q].obj, ret.des_vars[q].i))
        => Get(ret.out).x[p] <= Get(ret.out).x[q]

\* C30: after _correct_x, for every adjacent pair of object types every
\* instantiated source has a connection to an instantiated target and every
\* instantiated target a connection from an instantiated source; the
\* connections made before the correction are still made; the connection and
\* type variables of objects that are not instantiated are inactive; and the
\* types of the instantiated objects of each kind are non-decreasing.
C30_CorrectedArchitectureIsValid ==
    GncCorrected =>
        /\ AllConnected
        /\ ConnectionsKept
        /\ NonInstantiatedInactive
        /\ TypesNonDecreasing

\* a design vector with a connection made before and objects that are not
\* instantiated, to which the correction added a connection
C30_Witness ==
    /\ GncCorrected
    /\ \E p \in 1..Len(ret.des_vars) :
          ret.des_vars[p].of = "conn" /\ ret.x[p] = 1 /\ ~OfNonInstantiated(p)
    /\ \E p \in 1..Len(ret.des_vars) :
          ret.des_vars[p].of = "conn" /\ ret.x[p] = 0 /\ Get(ret.out).x[p] = 1
    /\ \E p \in 1..Len(ret.des_vars) :
          ret.des_vars[p].of = "type" /\ OfNonInstantiated(p)
    /\ \E p \in 1..Len(ret.des_vars) :
          ret.des_vars[p].of = "conn" /\ OfNonInstantiated(p)

\* a design vector in which the correction raised the type of an object
TypeRaised ==
    /\ GncCorrected
    /\ \E p \in 1..Len(ret.des_vars) :
          ret.des_vars[p].of = "type" /\ ret.x[p] < Get(ret.out).x[p]
====
